---- MODULE Spec2Model ----
(***************************************************************************)
(* Live-transcript service: registry reconciler (BotPoolMonitor), audio    *)
(* acquisition (AudioFetchService), chunked transcription                  *)
(* (GeminiTranscriptionService) and session state with SSE fan-out         *)
(* (TranscriptStreamService).                                              *)
(*                                                                         *)
(* Node.js runs each callback to completion: an action of this module is   *)
(* one macrotask (a timer firing, a network response arriving, a route     *)
(* call) together with every promise continuation it makes runnable.       *)
(***************************************************************************)
EXTENDS Integers, Sequences, FiniteSets, TLC

(***************************************************************************)
(* Bounds of the model                                                     *)
(***************************************************************************)
MaxAudioLen == 2      \* longest audio snapshot, in blocks
MaxFetches == 2       \* audio requests in flight at once
MaxTicks == 2         \* processAudioBuffers runs in flight at once
MaxSessions == 2      \* createSession calls in one behaviour
MaxSegments == 2      \* segments kept in one session
MaxStops == 2         \* stopSession calls on existing sessions in one behaviour
BlockSeconds == 200   \* seconds of audio one block of a buffer holds
BlockBytes == 1024    \* bytes of audio one block stands for

(***************************************************************************)
(* Program constants                                                       *)
(***************************************************************************)
MinContentBytes == 1000   \* AudioFetchService.js:190
GeminiMaxRetries == 3     \* GeminiTranscriptionService.js:501
FetchMaxRetries == 2      \* AudioFetchService.js:174

(***************************************************************************)
(* Entities, identifiers                                                   *)
(***************************************************************************)
Bots == {"b1"}                             \* legacyBotId of the registry's bots
undefined == "undefined"                   \* the JavaScript value undefined
null == "null"                             \* the JavaScript value null
PoolBotId == [b \in Bots |-> IF b = "b1" THEN "p1" ELSE "p2"]
BotIds == {PoolBotId[b] : b \in Bots}
BotOfPoolId(p) == CHOOSE b \in Bots : PoolBotId[b] = p
\* sessionId = `${botId}_transcript`
SessionIdOf(botId) == <<botId, "_transcript">>
SessionIds == {SessionIdOf(p) : p \in BotIds}
MapKeys == Bots \cup {undefined}
Blocks == {1}

RECURSIVE SeqsUpTo(_, _)
SeqsUpTo(S, n) ==
  IF n = 0 THEN {<<>>}
  ELSE LET shorter == SeqsUpTo(S, n - 1)
       IN shorter \cup {Append(s, x) : s \in {t \in shorter : Len(t) = n - 1}, x \in S}

Audio == SeqsUpTo(Blocks, MaxAudioLen)
ByteLength(buf) == Len(buf) * BlockBytes

\* getAudioMetadata(audioBuffer).duration, in seconds
audioDuration(buf) == Len(buf) * BlockSeconds

IsPrefix(p, s) == Len(p) <= Len(s) /\ SubSeq(s, 1, Len(p)) = p
IsProperPrefix(p, s) == IsPrefix(p, s) /\ Len(p) < Len(s)

\* crypto's sha256 digest as a number: distinct for distinct buffers of the model
RECURSIVE sha256(_)
sha256(buf) ==
  IF buf = <<>> THEN 1
  ELSE sha256(SubSeq(buf, 1, Len(buf) - 1)) * (Cardinality(Blocks) + 1) + buf[Len(buf)]

\* calculateAudioFingerprint: the hex digest string of the buffer
calculateAudioFingerprint(buf) == <<"hex", sha256(buf)>>

RECURSIVE SeqRemove(_, _)
SeqRemove(s, x) ==
  IF s = <<>> THEN <<>>
  ELSE IF Head(s) = x THEN SeqRemove(Tail(s), x)
       ELSE <<Head(s)>> \o SeqRemove(Tail(s), x)

SeqRange(s) == {s[i] : i \in 1..Len(s)}

(***************************************************************************)
(* Values exchanged with the transcription provider                        *)
(***************************************************************************)
\* speaker.startsWith('Speaker ')
StartsWithSpeakerSpace(sp) == sp \in {"Speaker 1", "Speaker 2"}
\* speaker.match(/^Speaker \d+$/)
MatchesSpeakerN(sp) == sp \in {"Speaker 1", "Speaker 2"}

Seg(sp, txt, st, en) == [speaker |-> sp, text |-> txt, startTime |-> st, endTime |-> en]

\* results transcribeAudio hands to the session pipeline (parsed and
\* normalised); they carry no duration and no context field
PipelineResults ==
  { [detectedLanguage |-> "en", wordCount |-> 2,
     segments |-> <<Seg("Ada", <<"hello", "world">>, 0, 5)>>],
    [detectedLanguage |-> "unknown", wordCount |-> 0,
     segments |-> <<Seg("Speaker 1", <<"hi">>, 0, 2), Seg("Bob", <<"yes">>, 2, 4)>>],
    [detectedLanguage |-> "en", wordCount |-> 0, segments |-> <<>>] }

(***************************************************************************)
(* TranscriptStreamService: the operations on the service's state.  T is   *)
(* the record of the service's fields (transcriptSessions,                 *)
(* botToSessionMap, sseClients, stats), the subscribers' streams           *)
(* (clientLog, clientEnded) and the counts of createSession and            *)
(* stopSession calls.                                                      *)
(***************************************************************************)
Clients == {"c1", "c2", "c3"}
NoSession == [status |-> "absent"]
NoEntry == <<>>
nullFingerprint == <<>>
SessionExists(T, sid) == T.transcriptSessions[sid].status # "absent"

newSession(sessionId, botId, legacyBotId, now) ==
  [sessionId |-> sessionId, botId |-> botId, legacyBotId |-> legacyBotId,
   startedAt |-> now, status |-> "active", segments |-> <<>>, speakers |-> {},
   detectedLanguage |-> null, wordCount |-> 0, duration |-> 0,
   lastProcessedFingerprint |-> nullFingerprint,
   context |-> [lastSpeaker |-> null, totalDuration |-> 0, speakers |-> <<>>]]

\* createSession(botId, legacyBotId, meetingUrl); startedAt is the ordinal
\* of the creation (new Date() of a later call is later)
createSession(T, botId, legacyBotId) ==
  LET sessionId == SessionIdOf(botId)
      now == T.stats.totalSessions + 1
  IN [T EXCEPT !.transcriptSessions[sessionId] = newSession(sessionId, botId, legacyBotId, now),
               !.botToSessionMap[legacyBotId] = sessionId,
               !.stats.totalSessions = @ + 1,
               !.stats.activeSessions = @ + 1,
               !.createCalls[sessionId] = @ + 1]

removeSSEClient(T, sessionId, res) ==
  [T EXCEPT !.sseClients[sessionId] = SeqRemove(@, res)]

addSSEClient(T, sessionId, res) ==
  IF res \in SeqRange(T.sseClients[sessionId]) THEN T
  ELSE [T EXCEPT !.sseClients[sessionId] = Append(@, res)]

\* the events one client is written for data
EventsOf(data) ==
  IF "segments" \in DOMAIN data
  THEN [i \in 1..Len(data.segments) |->
          [type |-> "transcript_update", speaker |-> data.segments[i].speaker,
           startTime |-> data.segments[i].startTime]]
  ELSE <<[type |-> data.type]>>

\* clients.forEach(client => { try { client.write(..) } catch { removeSSEClient } })
\* over the clients registered when the loop starts; failing = the clients
\* whose first write throws
RECURSIVE broadcastLoop(_, _, _, _, _)
broadcastLoop(T, sessionId, data, failing, todo) ==
  IF todo = <<>> THEN T
  ELSE LET client == Head(todo)
           T1 == IF client \in failing
                 THEN removeSSEClient(T, sessionId, client)
                 ELSE [T EXCEPT !.clientLog[client] = @ \o EventsOf(data)]
       IN broadcastLoop(T1, sessionId, data, failing, Tail(todo))

\* a variant without the try/catch: the first failing write ends the loop
broadcastUpdateAbort(T, sessionId, data, failing) ==
  LET todo == T.sseClients[sessionId]
      bad == {i \in 1..Len(todo) : todo[i] \in failing}
      reached == {todo[i] : i \in {j \in 1..Len(todo) : \A k \in bad : j < k}}
  IN [T EXCEPT !.clientLog = [c \in Clients |->
                                IF c \in reached THEN T.clientLog[c] \o EventsOf(data)
                                ELSE T.clientLog[c]]]

broadcastUpdate(T, sessionId, data, failing) ==
  broadcastLoop(T, sessionId, data, failing, T.sseClients[sessionId])

RECURSIVE dedupe(_)
dedupe(s) ==
  IF s = <<>> THEN <<>>
  ELSE LET front == dedupe(SubSeq(s, 1, Len(s) - 1))
       IN IF s[Len(s)] \in SeqRange(front) THEN front ELSE Append(front, s[Len(s)])

SelectSpeakerNames(segs) ==
  SelectSeq([i \in 1..Len(segs) |-> segs[i].speaker],
            LAMBDA sp : ~StartsWithSpeakerSpace(sp) /\ sp # "Unknown")

\* a mistaken id: the length read once, before the loop
segmentIdLengthBefore(sessionId, n, i) == <<sessionId, "_seg_", n + 1>>

\* `${sessionId}_seg_${session.segments.length + 1}` for the i-th segment of a
\* result appended to a session of n segments: the length is read after each push
segmentId(sessionId, n, i) == <<sessionId, "_seg_", n + i>>

updateSession(T, sessionId, transcription, failing) ==
  LET session == T.transcriptSessions[sessionId]
      segs == transcription.segments
      n == Len(session.segments)
      withIds == [i \in 1..Len(segs) |->
                    [speaker |-> segs[i].speaker, text |-> segs[i].text,
                     startTime |-> segs[i].startTime, endTime |-> segs[i].endTime,
                     id |-> segmentId(sessionId, n, i)]]
      wordCount == IF transcription.wordCount # 0 THEN transcription.wordCount
                   ELSE session.wordCount
      duration == IF "duration" \in DOMAIN transcription /\ transcription.duration # 0
                  THEN transcription.duration ELSE session.duration
      context0 == IF "context" \in DOMAIN transcription THEN transcription.context
                  ELSE session.context
      speakerNames == SelectSpeakerNames(segs)
      context1 == [context0 EXCEPT
                     !.lastSpeaker = segs[Len(segs)].speaker,
                     !.speakers = IF speakerNames # <<>> THEN dedupe(@ \o speakerNames) ELSE @]
      session1 == [session EXCEPT
                     !.segments = @ \o withIds,
                     !.speakers = @ \cup {segs[i].speaker : i \in 1..Len(segs)},
                     !.wordCount = wordCount,
                     !.duration = duration,
                     !.detectedLanguage = transcription.detectedLanguage,
                     !.context = context1]
      T1 == [T EXCEPT !.transcriptSessions[sessionId] = session1,
                      !.stats.totalSegments = @ + Len(segs),
                      !.stats.totalWords = wordCount]
  IN IF ~SessionExists(T, sessionId) \/ segs = <<>> THEN T
     ELSE broadcastUpdate(T1, sessionId,
            [type |-> "transcript_update", segments |-> segs], failing)

stopSession(T, sessionId, failing) ==
  LET session == T.transcriptSessions[sessionId]
      T1 == [T EXCEPT !.transcriptSessions[sessionId].status = "stopped",
                      !.stats.activeSessions = @ - 1,
                      !.botToSessionMap[session.legacyBotId] = NoEntry,
                      !.stopCalls = @ + 1]
      T2 == broadcastUpdate(T1, sessionId, [type |-> "session_stopped"], failing)
  IN IF ~SessionExists(T, sessionId) THEN T
     ELSE [T2 EXCEPT !.clientEnded = @ \cup SeqRange(T2.sseClients[sessionId]),
                     !.sseClients[sessionId] = <<>>]

\* getTranscript(sessionId): null without a session, else the session's
\* transcript and metadata
NoTranscript == <<>>
getTranscript(T, sessionId) ==
  LET session == T.transcriptSessions[sessionId]
  IN IF ~SessionExists(T, sessionId) THEN NoTranscript
     ELSE [sessionId |-> session.sessionId, botId |-> session.botId,
           transcript |-> [segments |-> session.segments, wordCount |-> session.wordCount,
                           duration |-> session.duration, speakers |-> session.speakers],
           metadata |-> [startedAt |-> session.startedAt, status |-> session.status]]

getActiveSessions(T) ==
  {sid \in SessionIds : T.transcriptSessions[sid].status = "active"}

(***************************************************************************)
(* State                                                                   *)
(***************************************************************************)
VARIABLES
  activeBots,        \* BotPoolMonitor.activeBots: legacyBotId -> bot of the last listing
  pollState,         \* "polling": registry request in flight; "timer": next poll scheduled
                     \* after pollInterval; "retryTimer": scheduled after retryDelay
  afsIsRunning,      \* AudioFetchService.isRunning (and its subscription to the monitor)
  audioBuffers,      \* AudioFetchService.audioBuffers, in Map insertion order
  fetchPromises,     \* AudioFetchService.fetchPromises: legacyBotId -> fetch id, 0 = no entry
  fetches,           \* the _performAudioFetch calls in flight
  afsUpdates,        \* handleBotPoolUpdate calls waiting in Promise.allSettled
  tssIsRunning,      \* TranscriptStreamService.isRunning
  transcriptSessions, botToSessionMap, sseClients, stats,
  ticks,             \* the processAudioBuffers runs in flight
  stableUpTo,        \* sessions started at or before this ordinal are older than the start delay
  clientLog,         \* the events written to each subscriber's stream
  clientEnded,       \* subscribers whose stream was ended by the service
  createCalls,       \* history: createSession calls per session id
  createsSinceEntered, \* history: createSession calls for the entity since it was reported entered
  hasLeft,           \* history: entities reported removed and not entered since
  unchangedFetch,    \* history: a fetch returned the audio already stored for the entity
  succeeded,         \* history: transcriptions appended for the stored snapshot (saturating)
  stopCalls,         \* history: stopSession calls on existing sessions
  rateLimited,       \* history: "no", or the error transcribeAudio threw for a provider
                     \* rate-limit signal whose retryAfter has not elapsed yet
  lt, norm, fan,     \* the transcribeLongAudio run, the speaker normalisation, the fan-out case
  fc,                \* one handleBotPoolUpdate of AudioFetchService over two bots
  pb,                \* one processBotUpdates call of BotPoolMonitor
  cy,                \* one processAudioBuffers run over the buffers of two bots
  ps,                \* one parseTranscriptionResponse call
  mon                \* BotPoolMonitor's polling chains under start, stop and forcePoll

pipelineVars ==
  <<activeBots, pollState, afsIsRunning, audioBuffers, fetchPromises, fetches, afsUpdates,
    tssIsRunning, transcriptSessions, botToSessionMap, sseClients, stats, ticks, stableUpTo,
    clientLog, clientEnded, createCalls, createsSinceEntered, hasLeft, unchangedFetch,
    succeeded, stopCalls>>
auxVars == <<fc, pb, cy, ps, mon>>
vars == <<pipelineVars, rateLimited, lt, norm, fan, auxVars>>

IdleAux == [pc |-> "idle"]
InitAux == fc = IdleAux /\ pb = IdleAux /\ cy = IdleAux /\ ps = IdleAux /\ mon = IdleAux

\* the TranscriptStreamService record the operations above work on
TSS ==
  [transcriptSessions |-> transcriptSessions, botToSessionMap |-> botToSessionMap,
   sseClients |-> sseClients, stats |-> stats, clientLog |-> clientLog,
   clientEnded |-> clientEnded, createCalls |-> createCalls, stopCalls |-> stopCalls]

\* the guards keep the history counters inside their bounds
SetTSS(T) ==
  /\ T.stats.totalSessions <= MaxSessions
  /\ T.stopCalls <= MaxStops
  /\ transcriptSessions' = T.transcriptSessions
  /\ botToSessionMap' = T.botToSessionMap
  /\ sseClients' = T.sseClients
  /\ stats' = T.stats
  /\ clientLog' = T.clientLog
  /\ clientEnded' = T.clientEnded
  /\ createCalls' = T.createCalls
  /\ stopCalls' = T.stopCalls

BotOrder == <<"b1">>
\* the bots of S in listing order
BotSeqOf(S) == SelectSeq(BotOrder, LAMBDA b : b \in S)

IdleTick == [pc |-> "idle"]

InitPipeline ==
  /\ activeBots = << >>
  /\ pollState = "polling"
  /\ afsIsRunning = TRUE
  /\ audioBuffers = <<>>
  /\ fetchPromises = [b \in Bots |-> 0]
  /\ fetches = {}
  /\ afsUpdates = {}
  /\ tssIsRunning = TRUE
  /\ transcriptSessions = [sid \in SessionIds |-> NoSession]
  /\ botToSessionMap = [k \in MapKeys |-> NoEntry]
  /\ sseClients = [sid \in SessionIds |-> <<>>]
  /\ stats = [totalSessions |-> 0, activeSessions |-> 0, totalSegments |-> 0, totalWords |-> 0]
  /\ ticks = [t \in 1..MaxTicks |-> IdleTick]
  /\ stableUpTo = 0
  /\ clientLog = [c \in Clients |-> <<>>]
  /\ clientEnded = {}
  /\ createCalls = [sid \in SessionIds |-> 0]
  /\ createsSinceEntered = [b \in Bots |-> 0]
  /\ hasLeft = [b \in Bots |-> FALSE]
  /\ unchangedFetch = [b \in Bots |-> FALSE]
  /\ succeeded = [b \in Bots |-> 0]
  /\ stopCalls = 0
  /\ rateLimited = "no"

(***************************************************************************)
(* AudioFetchService                                                       *)
(***************************************************************************)
BufHas(bufs, b) == \E i \in 1..Len(bufs) : bufs[i].key = b
BufGet(bufs, b) == bufs[CHOOSE i \in 1..Len(bufs) : bufs[i].key = b]
\* Map.set: an existing key keeps its place, a new key goes last
BufSet(bufs, e) ==
  IF BufHas(bufs, e.key)
  THEN [i \in 1..Len(bufs) |-> IF bufs[i].key = e.key THEN e ELSE bufs[i]]
  ELSE Append(bufs, e)
BufDeleteAll(bufs, S) == SelectSeq(bufs, LAMBDA e : e.key \notin S)

\* getAllAudioBuffers: Array.from(audioBuffers.values()); the stored value
\* has no legacyBotId field
getAllAudioBuffers(bufs) ==
  [i \in 1..Len(bufs) |->
     [botId |-> bufs[i].botId, buffer |-> bufs[i].buffer,
      incrementalBuffer |-> bufs[i].incrementalBuffer, fingerprint |-> bufs[i].fingerprint]]

hasContent(audioBuffer) == ByteLength(audioBuffer) > MinContentBytes

FetchesOf(b) == {f \in fetches : f.legacyBotId = b}
FreeFetchIds(F) == (1..MaxFetches) \ {f.id : f \in F}
MinOf(S) == CHOOSE x \in S : \A y \in S : x <= y

\* handleBotPoolUpdate, the map over update.activeBots: fetchAudioForBot joins
\* the pending fetch of the bot or starts _performAudioFetch and registers it.
\* A = [fetches, fetchPromises, waiting, ok]
RECURSIVE fetchAudioForBots(_, _)
fetchAudioForBots(A, bots) ==
  IF bots = <<>> THEN A
  ELSE LET b == Head(bots)
           free == FreeFetchIds(A.fetches)
           id == MinOf(free)
           A1 == IF A.fetchPromises[b] # 0
                 THEN [A EXCEPT !.waiting = @ \cup {A.fetchPromises[b]}]
                 ELSE IF free = {} THEN [A EXCEPT !.ok = FALSE]
                 ELSE [A EXCEPT !.fetches = @ \cup {[id |-> id, legacyBotId |-> b,
                                                      botId |-> PoolBotId[b]]},
                                !.fetchPromises[b] = id,
                                !.waiting = @ \cup {id}]
       IN IF A1.ok THEN fetchAudioForBots(A1, Tail(bots)) ELSE A1

\* the result of _performAudioFetch once the request has its final response
FetchResponses == [kind : {"ok"}, audio : Audio] \cup [kind : {"404", "425", "5xx"}]

storeNeeded(bufs, b, resp) ==
  /\ resp.kind = "ok"
  /\ hasContent(resp.audio)
  /\ ~(BufHas(bufs, b) /\ BufGet(bufs, b).fingerprint = calculateAudioFingerprint(resp.audio))

isUnchanged(bufs, b, resp) ==
  /\ resp.kind = "ok"
  /\ hasContent(resp.audio)
  /\ BufHas(bufs, b) /\ BufGet(bufs, b).fingerprint = calculateAudioFingerprint(resp.audio)

\* incrementalBuffer is the full buffer in both branches of lines 217-232
performAudioFetchStore(bufs, f, audioBuffer) ==
  LET isIncremental == BufHas(bufs, f.legacyBotId)
                       /\ Len(audioBuffer) > Len(BufGet(bufs, f.legacyBotId).buffer)
      incrementalBuffer == audioBuffer
  IN BufSet(bufs, [key |-> f.legacyBotId, botId |-> f.botId, buffer |-> audioBuffer,
                   incrementalBuffer |-> IF isIncremental THEN incrementalBuffer ELSE audioBuffer,
                   fingerprint |-> calculateAudioFingerprint(audioBuffer)])

\* the final response of a fetch (withRetry has retried the 5xx and timeout
\* answers it may retry; a final 5xx is the answer to the last retry):
\* _performAudioFetch stores or returns null or
\* throws, fetchAudioForBot's finally deletes the fetchPromises entry, and
\* every handleBotPoolUpdate whose fetches have all settled cleans up its removedBots
FetchSettle(f, resp) ==
  /\ f \in fetches
  /\ LET b == f.legacyBotId
         stored == storeNeeded(audioBuffers, b, resp)
         bufs1 == IF stored THEN performAudioFetchStore(audioBuffers, f, resp.audio)
                  ELSE audioBuffers
         rest == {[h EXCEPT !.waiting = @ \ {f.id}] : h \in afsUpdates}
         done == {h \in rest : h.waiting = {}}
         cleaned == UNION {h.removedBots : h \in done}
     IN /\ audioBuffers' = BufDeleteAll(bufs1, cleaned)
        /\ fetchPromises' = [x \in Bots |-> IF x = b \/ x \in cleaned THEN 0 ELSE fetchPromises[x]]
        /\ fetches' = fetches \ {f}
        /\ afsUpdates' = rest \ done
        /\ unchangedFetch' = [x \in Bots |->
                                IF x \in cleaned THEN FALSE
                                ELSE IF x = b /\ stored THEN FALSE
                                ELSE IF x = b /\ isUnchanged(audioBuffers, b, resp) THEN TRUE
                                ELSE unchangedFetch[x]]
        /\ succeeded' = [x \in Bots |->
                           IF x \in cleaned \/ (x = b /\ stored) THEN 0 ELSE succeeded[x]]
  /\ UNCHANGED <<activeBots, pollState, afsIsRunning, tssIsRunning, transcriptSessions,
                 botToSessionMap, sseClients, stats, ticks, stableUpTo, clientLog, clientEnded,
                 createCalls, createsSinceEntered, hasLeft, stopCalls, lt, norm, fan, rateLimited, auxVars>>

\* AudioFetchService.stop()
AFSStop ==
  /\ afsIsRunning
  /\ afsIsRunning' = FALSE
  /\ audioBuffers' = <<>>
  /\ fetchPromises' = [b \in Bots |-> 0]
  /\ unchangedFetch' = [b \in Bots |-> FALSE]
  /\ succeeded' = [b \in Bots |-> 0]
  /\ UNCHANGED <<activeBots, pollState, fetches, afsUpdates, tssIsRunning, transcriptSessions,
                 botToSessionMap, sseClients, stats, ticks, stableUpTo, clientLog, clientEnded,
                 createCalls, createsSinceEntered, hasLeft, stopCalls, lt, norm, fan, rateLimited, auxVars>>

(***************************************************************************)
(* TranscriptStreamService: bot-pool updates and the processing loop       *)
(***************************************************************************)
RECURSIVE createForActiveBots(_, _)
createForActiveBots(T, bots) ==
  IF bots = <<>> THEN T
  ELSE LET legacyBotId == Head(bots)
           T1 == IF T.botToSessionMap[legacyBotId] = NoEntry
                 THEN createSession(T, PoolBotId[legacyBotId], legacyBotId)
                 ELSE T
       IN createForActiveBots(T1, Tail(bots))

RECURSIVE stopRemovedBots(_, _)
stopRemovedBots(T, bots) ==
  IF bots = <<>> THEN T
  ELSE LET sessionId == T.botToSessionMap[Head(bots)]
           T1 == IF sessionId # NoEntry THEN stopSession(T, sessionId, {}) ELSE T
       IN stopRemovedBots(T1, Tail(bots))

\* TranscriptStreamService.handleBotPoolUpdate(update)
tssHandleBotPoolUpdate(T, running, update) ==
  IF ~running THEN T
  ELSE stopRemovedBots(createForActiveBots(T, BotSeqOf(DOMAIN update.activeBots)),
                       BotSeqOf(update.removedBots))

\* processAudioBuffer(audioData) up to its await: audioData is a value of
\* audioBuffers, so the legacyBotId it destructures is undefined
processAudioBufferSync(T, audioData, stable) ==
  LET legacyBotId == undefined
      found == T.botToSessionMap[legacyBotId]
      T1 == IF found = NoEntry THEN createSession(T, audioData.botId, legacyBotId) ELSE T
      sessionId == IF found = NoEntry THEN SessionIdOf(audioData.botId) ELSE found
      session == T1.transcriptSessions[sessionId]
  IN [T |-> T1, sessionId |-> sessionId, startedAt |-> session.startedAt,
      transcribe |-> /\ session.lastProcessedFingerprint # audioData.fingerprint
                     /\ session.startedAt <= stable]

\* the for loop of processAudioBuffers from the buffers still to do up to the
\* next transcribeAudio call it awaits, or to its end
RECURSIVE processAudioBuffers(_, _, _)
processAudioBuffers(T, queue, stable) ==
  IF queue = <<>> THEN [T |-> T, tick |-> IdleTick]
  ELSE LET r == processAudioBufferSync(T, Head(queue), stable)
       IN IF r.transcribe
          THEN [T |-> r.T,
                tick |-> [pc |-> "transcribing", queue |-> Tail(queue), cur |-> Head(queue),
                          sessionId |-> r.sessionId, startedAt |-> r.startedAt]]
          ELSE processAudioBuffers(r.T, Tail(queue), stable)

CreatedFor(T, b) == T.createCalls[SessionIdOf(PoolBotId[b])] - createCalls[SessionIdOf(PoolBotId[b])]

\* the interval callback of startProcessingLoop (or the force-transcribe
\* route) calls processAudioBuffers; stop() is called by gracefulShutdown
\* only, which exits the process, so no callback runs after it
TickStart ==
  /\ tssIsRunning
  /\ \E t \in 1..MaxTicks : ticks[t].pc = "idle"
  /\ LET t == MinOf({x \in 1..MaxTicks : ticks[x].pc = "idle"})
         r == processAudioBuffers(TSS, getAllAudioBuffers(audioBuffers), stableUpTo)
     IN /\ SetTSS(r.T)
        /\ ticks' = [ticks EXCEPT ![t] = r.tick]
        /\ createsSinceEntered' = [b \in Bots |-> createsSinceEntered[b] + CreatedFor(r.T, b)]
  /\ UNCHANGED <<activeBots, pollState, afsIsRunning, audioBuffers, fetchPromises, fetches,
                 afsUpdates, tssIsRunning, stableUpTo, hasLeft, unchangedFetch, succeeded, lt, norm, fan, rateLimited, auxVars>>

\* the errors generateContent can reject with, by what shouldRetry looks for in
\* error.message
ProviderErrors == {"rate limit", "503", "other"}

\* withRetry(fn, {maxRetries, shouldRetry}): errors[i] is what attempt i - 1
\* of fn rejects with; the value is the error withRetry rejects with.  The
\* last attempt's error is rethrown without asking shouldRetry; shouldRetry
\* throws RateLimitError for a rate limit and retries a 503
RECURSIVE withRetry(_, _)
withRetry(errors, attempt) ==
  LET error == Head(errors)
  IN IF attempt = GeminiMaxRetries THEN error
     ELSE IF error = "rate limit" THEN "RateLimitError"
     ELSE IF error = "503" THEN withRetry(Tail(errors), attempt + 1)
     ELSE error

\* transcribeAudio's catch: a RateLimitError is rethrown, any other error
\* becomes an ExternalAPIError
transcribeAudioThrows(errors) ==
  IF withRetry(errors, 0) = "RateLimitError" THEN "RateLimitError" ELSE "ExternalAPIError"

\* the rejections of the attempts of one transcribeAudio call that throws:
\* retried 503s, then the error that ends the call
ErrorRuns ==
  {errors \in SeqsUpTo(ProviderErrors, GeminiMaxRetries + 1) :
     /\ errors # <<>>
     /\ \A i \in 1..(Len(errors) - 1) : errors[i] = "503"
     /\ Len(errors) <= GeminiMaxRetries => errors[Len(errors)] # "503"}

TranscribeOutcomes ==
  [kind : {"result"}, transcription : PipelineResults] \cup [kind : {"thrown"}, errors : ErrorRuns]

StoredFingerprintIs(b, fp) == BufHas(audioBuffers, b) /\ BufGet(audioBuffers, b).fingerprint = fp

\* processAudioBuffer after its await, for the buffer the run tick waits on:
\* a result with segments is appended and the snapshot marked processed, a
\* thrown error or a result without segments changes nothing
transcribeReturned(T, tick, outcome) ==
  LET sessionId == tick.sessionId
      appended == outcome.kind = "result" /\ outcome.transcription.segments # <<>>
      T1 == IF appended THEN updateSession(T, sessionId, outcome.transcription, {}) ELSE T
  IN \* session.lastProcessedFingerprint = ... writes the object read before the await
     IF appended /\ T1.transcriptSessions[sessionId].startedAt = tick.startedAt
     THEN [T1 EXCEPT !.transcriptSessions[sessionId].lastProcessedFingerprint =
                        tick.cur.fingerprint]
     ELSE T1

\* transcribeAudio returns or throws for the buffer a tick is waiting on: the
\* rest of processAudioBuffer, then the loop goes on with the next buffers
TranscribeDone(t, outcome) ==
  /\ ticks[t].pc = "transcribing"
  /\ LET tick == ticks[t]
         sessionId == tick.sessionId
         b == BotOfPoolId(tick.cur.botId)
         appended == outcome.kind = "result" /\ outcome.transcription.segments # <<>>
         T2 == transcribeReturned(TSS, tick, outcome)
         r == processAudioBuffers(T2, tick.queue, stableUpTo)
     IN /\ appended =>
             Len(transcriptSessions[sessionId].segments) + Len(outcome.transcription.segments)
               <= MaxSegments
        /\ SetTSS(r.T)
        /\ ticks' = [ticks EXCEPT ![t] = r.tick]
        /\ createsSinceEntered' = [x \in Bots |-> createsSinceEntered[x] + CreatedFor(r.T, x)]
        /\ succeeded' = [x \in Bots |->
                           IF x = b /\ appended
                              /\ StoredFingerprintIs(b, tick.cur.fingerprint) /\ succeeded[x] < 2
                           THEN succeeded[x] + 1 ELSE succeeded[x]]
  /\ rateLimited' = IF outcome.kind = "thrown"
                         /\ outcome.errors[Len(outcome.errors)] = "rate limit"
                      THEN transcribeAudioThrows(outcome.errors) ELSE rateLimited
  /\ UNCHANGED <<activeBots, pollState, afsIsRunning, audioBuffers, fetchPromises, fetches,
                 afsUpdates, tssIsRunning, stableUpTo, hasLeft, unchangedFetch,
                 lt, norm, fan, auxVars>>

\* the retryAfter of the last rate-limit signal (60 s) has passed
RetryAfterElapsed ==
  /\ rateLimited # "no"
  /\ rateLimited' = "no"
  /\ UNCHANGED <<pipelineVars, lt, norm, fan, auxVars>>

\* time passes: every session created so far is now older than
\* TRANSCRIPTION_START_DELAY
Elapse ==
  /\ stableUpTo < stats.totalSessions
  /\ stableUpTo' = stats.totalSessions
  /\ UNCHANGED <<activeBots, pollState, afsIsRunning, audioBuffers, fetchPromises, fetches,
                 afsUpdates, tssIsRunning, transcriptSessions, botToSessionMap, sseClients, stats,
                 ticks, clientLog, clientEnded, createCalls, createsSinceEntered, hasLeft,
                 unchangedFetch, succeeded, stopCalls, lt, norm, fan, rateLimited, auxVars>>

\* POST /api/transcripts/:sessionId/stop
StopRoute(sessionId) ==
  /\ SetTSS(stopSession(TSS, sessionId, {}))
  /\ UNCHANGED <<activeBots, pollState, afsIsRunning, audioBuffers, fetchPromises, fetches,
                 afsUpdates, tssIsRunning, ticks, stableUpTo, createsSinceEntered, hasLeft,
                 unchangedFetch, succeeded, lt, norm, fan, rateLimited, auxVars>>

RECURSIVE stopActiveSessions(_, _)
stopActiveSessions(T, sids) ==
  IF sids = <<>> THEN T
  ELSE LET T1 == IF T.transcriptSessions[Head(sids)].status = "active"
                 THEN stopSession(T, Head(sids), {}) ELSE T
       IN stopActiveSessions(T1, Tail(sids))

\* TranscriptStreamService.stop()
TSSStop ==
  /\ tssIsRunning
  /\ tssIsRunning' = FALSE
  /\ SetTSS(stopActiveSessions(TSS, [i \in 1..Len(BotOrder) |-> SessionIdOf(PoolBotId[BotOrder[i]])]))
  /\ UNCHANGED <<activeBots, pollState, afsIsRunning, audioBuffers, fetchPromises, fetches,
                 afsUpdates, ticks, stableUpTo, createsSinceEntered, hasLeft, unchangedFetch,
                 succeeded, lt, norm, fan, rateLimited, auxVars>>

(***************************************************************************)
(* BotPoolMonitor                                                          *)
(***************************************************************************)
\* the listings the registry can answer with: legacyBotId -> bot
Listings == UNION {[S -> [audioBlobUrl : BOOLEAN]] : S \in SUBSET Bots}

\* processBotUpdates(bots): the diff, the new activeBots and whether the
\* listeners are notified
processBotUpdates(previous, bots) ==
  LET currentBotIds == DOMAIN bots
      previousBotIds == DOMAIN previous
      newBots == currentBotIds \ previousBotIds
      removedBotIds == previousBotIds \ currentBotIds
      botsWithNewAudio == {b \in currentBotIds \cap previousBotIds :
                             ~previous[b].audioBlobUrl /\ bots[b].audioBlobUrl}
  IN [type |-> "update", newBots |-> newBots, removedBots |-> removedBotIds,
      activeBots |-> bots, botsWithNewAudio |-> botsWithNewAudio,
      notify |-> newBots # {} \/ removedBotIds # {} \/ botsWithNewAudio # {}]

\* notifyListeners(update): TranscriptStreamService.handleBotPoolUpdate runs
\* to its end, AudioFetchService.handleBotPoolUpdate up to Promise.allSettled
\* (and through its clean-up when it has no fetch to wait for); a call with
\* no removedBots has nothing left to do after the wait and is not kept
NotifyListeners(update) ==
  LET T == tssHandleBotPoolUpdate(TSS, tssIsRunning, update)
      A == fetchAudioForBots([fetches |-> fetches, fetchPromises |-> fetchPromises,
                              waiting |-> {}, ok |-> TRUE],
                             BotSeqOf(DOMAIN update.activeBots))
      cleaned == IF A.waiting = {} THEN update.removedBots ELSE {}
  IN /\ SetTSS(T)
     /\ createsSinceEntered' = [b \in Bots |->
           (IF b \in update.newBots THEN 0 ELSE createsSinceEntered[b]) + CreatedFor(T, b)]
     /\ hasLeft' = [b \in Bots |->
           IF b \in update.removedBots /\ tssIsRunning THEN TRUE
           ELSE IF b \in update.newBots THEN FALSE ELSE hasLeft[b]]
     /\ IF afsIsRunning
        THEN /\ A.ok
             /\ fetches' = A.fetches
             /\ fetchPromises' = [b \in Bots |-> IF b \in cleaned THEN 0 ELSE A.fetchPromises[b]]
             /\ audioBuffers' = BufDeleteAll(audioBuffers, cleaned)
             /\ afsUpdates' = IF A.waiting = {} \/ update.removedBots = {} THEN afsUpdates
                              ELSE afsUpdates \cup {[waiting |-> A.waiting,
                                                     removedBots |-> update.removedBots]}
             /\ unchangedFetch' = [b \in Bots |-> IF b \in cleaned THEN FALSE ELSE unchangedFetch[b]]
             /\ succeeded' = [b \in Bots |-> IF b \in cleaned THEN 0 ELSE succeeded[b]]
        ELSE UNCHANGED <<fetches, fetchPromises, audioBuffers, afsUpdates, unchangedFetch, succeeded>>

NoNotification ==
  UNCHANGED <<audioBuffers, fetchPromises, fetches, afsUpdates, transcriptSessions,
              botToSessionMap, sseClients, stats, clientLog, clientEnded, createCalls,
              createsSinceEntered, hasLeft, unchangedFetch, succeeded, stopCalls>>

\* the poll timer fires: poll() sends the registry request
PollStart ==
  /\ pollState \in {"timer", "retryTimer"}
  /\ pollState' = "polling"
  /\ UNCHANGED <<activeBots, afsIsRunning, audioBuffers, fetchPromises, fetches, afsUpdates,
                 tssIsRunning, transcriptSessions, botToSessionMap, sseClients, stats, ticks,
                 stableUpTo, clientLog, clientEnded, createCalls, createsSinceEntered, hasLeft,
                 unchangedFetch, succeeded, stopCalls, lt, norm, fan, rateLimited, auxVars>>

\* the registry answers with a listing
PollSuccess(bots) ==
  /\ pollState = "polling"
  /\ pollState' = "timer"
  /\ activeBots' = bots
  /\ LET update == processBotUpdates(activeBots, bots)
     IN IF update.notify THEN NotifyListeners(update) ELSE NoNotification
  /\ UNCHANGED <<afsIsRunning, tssIsRunning, ticks, stableUpTo,
                 lt, norm, fan, rateLimited, auxVars>>

\* the registry request fails: poll()'s catch clears the active bots and
\* schedules the next poll after retryDelay
PollError ==
  /\ pollState = "polling"
  /\ pollState' = "retryTimer"
  /\ IF DOMAIN activeBots # {}
     THEN /\ activeBots' = << >>
          /\ LET update == processBotUpdates(activeBots, << >>)
             IN IF update.notify THEN NotifyListeners(update) ELSE NoNotification
     ELSE /\ UNCHANGED activeBots
          /\ NoNotification
  /\ UNCHANGED <<afsIsRunning, tssIsRunning, ticks, stableUpTo,
                 lt, norm, fan, rateLimited, auxVars>>

(***************************************************************************)
(* GeminiTranscriptionService.transcribeLongAudio over the windows of      *)
(* AudioProcessor.splitAudioIntoChunks.  Durations are whole seconds.      *)
(***************************************************************************)
ChunkDuration == 300      \* GeminiTranscriptionService.js:780
LongDurations == {250, 300, 301, 600, 620, 900}

\* Math.ceil(a / b) for positive integers
Ceil(a, b) == IF a % b = 0 THEN a \div b ELSE (a \div b) + 1
Min(a, b) == IF a <= b THEN a ELSE b

\* splitAudioIntoChunks(audioBuffer, chunkDuration): the chunks' time ranges;
\* the single chunk of a short audio has no index field
splitAudioIntoChunks(totalDuration, chunkDuration) ==
  IF totalDuration <= chunkDuration
  THEN <<[startTime |-> 0, endTime |-> totalDuration]>>
  ELSE LET numChunks == Ceil(totalDuration, chunkDuration)
       IN [k \in 1..numChunks |->
             [startTime |-> (k - 1) * chunkDuration,
              endTime |-> Min(k * chunkDuration, totalDuration),
              index |-> k - 1]]

\* what transcribeAudio can return for one window: utterances at local times
WindowResults ==
  { <<>>,
    <<Seg("Ada", <<"one">>, 0, 5)>>,
    <<Seg("Speaker 1", <<"two">>, 10, 12)>>,
    <<Seg("Ada", <<"a">>, 10, 20), Seg("Bob", <<"b", "c">>, 250, 299)>>,
    <<Seg("Bob", <<"late">>, 50, 60), Seg("Ada", <<"early">>, 10, 20)>>,
    <<Seg("Unknown", <<"beyond">>, 310, 320)>> }

\* a variant that leaves the window-local times as they are
adjustTimestampsLocal(segments, chunk) == segments

\* segment.startTime += chunk.startTime; segment.endTime += chunk.startTime
adjustTimestamps(segments, chunk) ==
  [i \in 1..Len(segments) |->
     [segments[i] EXCEPT !.startTime = @ + chunk.startTime, !.endTime = @ + chunk.startTime]]

nullContext == [isNull |-> TRUE]

\* the context transcribeLongAudio builds after a window's result
contextAfter(segments, chunk) ==
  [isNull |-> FALSE,
   lastSpeaker |-> IF segments = <<>> THEN undefined ELSE segments[Len(segments)].speaker,
   totalDuration |-> chunk.endTime,
   speakers |-> dedupe([i \in 1..Len(segments) |-> segments[i].speaker])]

RECURSIVE flatMapSegments(_)
flatMapSegments(transcriptions) ==
  IF transcriptions = <<>> THEN <<>>
  ELSE Head(transcriptions).segments \o flatMapSegments(Tail(transcriptions))

RECURSIVE sumWords(_)
sumWords(segments) ==
  IF segments = <<>> THEN 0 ELSE Len(Head(segments).text) + sumWords(Tail(segments))

\* combineTranscriptions(transcriptions), for a non-empty list
combineTranscriptions(transcriptions) ==
  LET allSegments == flatMapSegments(transcriptions)
  IN [segments |-> allSegments, wordCount |-> sumWords(allSegments)]

IdleLong == [pc |-> "idle"]

\* transcribeLongAudio is called on an audio of some duration
LongStart ==
  /\ lt.pc = "start"
  /\ lt' = [pc |-> "chunk", duration |-> lt.duration,
            chunks |-> splitAudioIntoChunks(lt.duration, ChunkDuration),
            next |-> 1, transcriptions |-> <<>>, previousContext |-> nullContext,
            calls |-> <<>>]
  /\ UNCHANGED <<pipelineVars, norm, fan, rateLimited, auxVars>>

LongCall(l) ==
  [isIncremental |-> "index" \in DOMAIN l.chunks[l.next] /\ l.chunks[l.next].index > 0,
   previousContext |-> l.previousContext, window |-> l.next]

\* transcribeAudio returns segments for the window being awaited
LongChunkOk(segments) ==
  /\ lt.pc = "chunk" /\ lt.next <= Len(lt.chunks)
  /\ LET chunk == lt.chunks[lt.next]
         shifted == adjustTimestamps(segments, chunk)
     IN lt' = [lt EXCEPT !.transcriptions = Append(@, [segments |-> shifted]),
                         !.previousContext = contextAfter(shifted, chunk),
                         !.calls = Append(@, [call |-> LongCall(lt), ok |-> TRUE,
                                              returned |-> segments]),
                         !.next = @ + 1]
  /\ UNCHANGED <<pipelineVars, norm, fan, rateLimited, auxVars>>

\* a variant of the catch branch that forgets the context on a failure
LongChunkFailResetContext(rateLimit) ==
  /\ lt.pc = "chunk" /\ lt.next <= Len(lt.chunks)
  /\ lt' = [lt EXCEPT !.pc = IF rateLimit THEN "thrown" ELSE "chunk",
                      !.previousContext = nullContext,
                      !.calls = Append(@, [call |-> LongCall(lt), ok |-> FALSE,
                                           returned |-> <<>>, rateLimit |-> rateLimit]),
                      !.next = @ + 1]
  /\ UNCHANGED <<pipelineVars, norm, fan, rateLimited, auxVars>>

\* transcribeAudio throws for the window: a RateLimitError is rethrown, any
\* other error is logged and the loop goes on
LongChunkFail(rateLimit) ==
  /\ lt.pc = "chunk" /\ lt.next <= Len(lt.chunks)
  /\ lt' = [lt EXCEPT !.pc = IF rateLimit THEN "thrown" ELSE "chunk",
                      !.calls = Append(@, [call |-> LongCall(lt), ok |-> FALSE,
                                           returned |-> <<>>, rateLimit |-> rateLimit]),
                      !.next = @ + 1]
  /\ UNCHANGED <<pipelineVars, norm, fan, rateLimited, auxVars>>

\* after the last window: return combineTranscriptions(transcriptions)
LongCombine ==
  /\ lt.pc = "chunk" /\ lt.next > Len(lt.chunks)
  /\ lt' = IF lt.transcriptions = <<>>
           THEN [lt EXCEPT !.pc = "thrown"]
           ELSE [pc |-> "done", duration |-> lt.duration, chunks |-> lt.chunks,
                 next |-> lt.next, transcriptions |-> lt.transcriptions,
                 previousContext |-> lt.previousContext, calls |-> lt.calls,
                 result |-> combineTranscriptions(lt.transcriptions)]
  /\ UNCHANGED <<pipelineVars, norm, fan, rateLimited, auxVars>>

(***************************************************************************)
(* GeminiTranscriptionService.transcribeAudio: the speaker labels of the   *)
(* parsed response and normalizeSpeakerNames                               *)
(***************************************************************************)
MaxNormSegments == 3     \* utterances in one provider response

\* labels a provider response can carry; "" is a missing or empty label
RawLabels == {"", "Unknown", "Speaker", "Speaker 1", "Ada", "ada", "Zed"}
\* a participant of the roster; "" is a missing name or email
Participants == {[name |-> "Ada", email |-> "ada@x.org"], [name |-> "Bob", email |-> ""],
                 [name |-> "", email |-> "eve@x.org"], [name |-> "", email |-> ""]}
Rosters == {<<>>} \cup {<<p>> : p \in Participants}
           \cup {r \in {<<p, q>> : p \in Participants, q \in Participants} : r[1] # r[2]}

\* s.toLowerCase()
toLowerCase(str) ==
  CASE str = "Ada" -> "ada"
    [] str = "Bob" -> "bob"
    [] str = "Zed" -> "zed"
    [] str = "Unknown" -> "unknown"
    [] str = "Speaker" -> "speaker"
    [] str = "Speaker 1" -> "speaker 1"
    [] str = "Speaker 2" -> "speaker 2"
    [] OTHER -> str
\* a.includes(b) for the lower-case strings of the model
includes(a, b) == a = b \/ b = "" \/ (b = "speaker" /\ a \in {"speaker 1", "speaker 2"})

\* segment.speaker || 'Unknown' of parseTranscriptionResponse
parsedSpeaker(label) == IF label = "" THEN "Unknown" ELSE label

\* p.name || p.email || 'Unknown'
participantName(p) == IF p.name # "" THEN p.name ELSE IF p.email # "" THEN p.email ELSE "Unknown"

countSpeaker(segments, name) == Cardinality({i \in 1..Len(segments) : segments[i].speaker = name})

\* participantNames.forEach(name => { if (count < minCount) ... }): the first
\* name with the least count among the speakers of the unmodified segments
RECURSIVE leastUsed(_, _, _, _)
leastUsed(segments, names, best, minCount) ==
  IF names = <<>> THEN best
  ELSE LET count == countSpeaker(segments, Head(names))
       IN IF minCount < 0 \/ count < minCount
          THEN leastUsed(segments, Tail(names), Head(names), count)
          ELSE leastUsed(segments, Tail(names), best, minCount)

fuzzyMatches(names, speaker) ==
  SelectSeq(names, LAMBDA name :
     includes(toLowerCase(name), toLowerCase(speaker))
     \/ includes(toLowerCase(speaker), toLowerCase(name)))

normalizeOne(segments, participantNames, segment) ==
  LET speaker == IF segment.speaker = "" THEN "Unknown" ELSE segment.speaker
      matched == fuzzyMatches(participantNames, speaker)
  IN IF speaker = "Unknown" \/ speaker = "Speaker" \/ MatchesSpeakerN(speaker)
     THEN [segment EXCEPT !.speaker = leastUsed(segments, participantNames, participantNames[1], -1)]
     ELSE IF speaker \in SeqRange(participantNames) THEN segment
     ELSE IF matched # <<>> THEN [segment EXCEPT !.speaker = matched[1]]
     ELSE [segment EXCEPT !.speaker = participantNames[1]]

\* a variant that, for a roster of one, relabels only the generic labels
normalizeSpeakerNamesKeepNamed(segments, participants) ==
  LET participantNames == [i \in 1..Len(participants) |-> participantName(participants[i])]
      generic(sp) == sp = "Unknown" \/ sp = "Speaker" \/ MatchesSpeakerN(sp)
  IN IF segments = <<>> \/ participants = <<>> THEN segments
     ELSE IF Len(participants) = 1
     THEN [i \in 1..Len(segments) |->
             IF generic(segments[i].speaker)
             THEN [segments[i] EXCEPT !.speaker = participantNames[1]]
             ELSE segments[i]]
     ELSE [i \in 1..Len(segments) |-> normalizeOne(segments, participantNames, segments[i])]

normalizeSpeakerNames(segments, participants) ==
  LET participantNames == [i \in 1..Len(participants) |-> participantName(participants[i])]
  IN IF segments = <<>> \/ participants = <<>> THEN segments
     ELSE IF Len(participants) = 1
     THEN [i \in 1..Len(segments) |-> [segments[i] EXCEPT !.speaker = participantNames[1]]]
     ELSE [i \in 1..Len(segments) |-> normalizeOne(segments, participantNames, segments[i])]

\* transcribeAudio from the parsed response to the returned segments
transcribeAudioSegments(labels, participants, useGenericSpeakers) ==
  LET parsed == [i \in 1..Len(labels) |-> [speaker |-> parsedSpeaker(labels[i]), n |-> i]]
  IN IF participants # <<>> /\ ~useGenericSpeakers
     THEN normalizeSpeakerNames(parsed, participants)
     ELSE parsed

IdleNorm == [pc |-> "idle"]

NormInputs ==
  [pc : {"call"}, labels : SeqsUpTo(RawLabels, MaxNormSegments), participants : Rosters,
   useGenericSpeakers : BOOLEAN]

\* transcribeAudio returns for a provider response with these labels
NormReturn ==
  /\ norm.pc = "call"
  /\ norm' = [pc |-> "done", labels |-> norm.labels, participants |-> norm.participants,
              useGenericSpeakers |-> norm.useGenericSpeakers,
              segments |-> transcribeAudioSegments(norm.labels, norm.participants,
                                                   norm.useGenericSpeakers)]
  /\ UNCHANGED <<pipelineVars, lt, fan, rateLimited, auxVars>>

(***************************************************************************)
(* AudioFetchService.handleBotPoolUpdate over an update that lists two     *)
(* bots: the attempts of withRetry inside each _performAudioFetch          *)
(***************************************************************************)
FcBots == <<"b1", "b2">>
FcPoolBotId(b) == IF b = "b1" THEN "p1" ELSE "p2"

\* what one attempt of the audio request can end with: the answers of
\* FetchResponses, a timeout (ECONNABORTED) or a refused connection
AttemptResponses == FetchResponses \cup [kind : {"timeout", "refused"}]

\* shouldRetry of _performAudioFetch
shouldRetryFetch(resp) == resp.kind \in {"5xx", "timeout"}

FcSet(F, b, state, resp) ==
  [F EXCEPT !.attempts[b] = @ + 1, !.state[b] = state, !.last[b] = resp]

\* a variant whose error path drops the stored snapshot
fetchAttemptDropOnError(F, b, resp) ==
  IF resp.kind = "ok"
  THEN IF storeNeeded(F.bufs, b, resp)
       THEN [FcSet(F, b, "stored", resp) EXCEPT
               !.bufs = performAudioFetchStore(F.bufs, [legacyBotId |-> b,
                                                        botId |-> FcPoolBotId(b)], resp.audio)]
       ELSE FcSet(F, b, "null", resp)
  ELSE IF F.attempts[b] < FetchMaxRetries /\ shouldRetryFetch(resp)
  THEN FcSet(F, b, "pending", resp)
  ELSE IF resp.kind \in {"404", "425"} THEN FcSet(F, b, "null", resp)
  ELSE [FcSet(F, b, "caught", resp) EXCEPT !.bufs = BufDeleteAll(F.bufs, {b})]

\* one attempt of withRetry's loop in _performAudioFetch for bot b, attempt
\* number F.attempts[b] from 0, and what follows it: a stored buffer, a null
\* result, a retry, or an ExternalAPIError that the .catch of
\* handleBotPoolUpdate logs
fetchAttempt(F, b, resp) ==
  IF resp.kind = "ok"
  THEN IF storeNeeded(F.bufs, b, resp)
       THEN [FcSet(F, b, "stored", resp) EXCEPT
               !.bufs = performAudioFetchStore(F.bufs, [legacyBotId |-> b,
                                                        botId |-> FcPoolBotId(b)], resp.audio)]
       ELSE FcSet(F, b, "null", resp)
  ELSE IF F.attempts[b] < FetchMaxRetries /\ shouldRetryFetch(resp)
  THEN FcSet(F, b, "pending", resp)
  ELSE IF resp.kind \in {"404", "425"} THEN FcSet(F, b, "null", resp)
  ELSE FcSet(F, b, "caught", resp)

\* the snapshots audioBuffers can hold when the update arrives
FcStoredAudio == {a \in Audio : hasContent(a)}
FcEntry(b, a) ==
  [key |-> b, botId |-> FcPoolBotId(b), buffer |-> a, incrementalBuffer |-> a,
   fingerprint |-> calculateAudioFingerprint(a)]
FcInitialBufs ==
  {<<>>} \cup {<<FcEntry(b, a)>> : b \in {"b1", "b2"}, a \in FcStoredAudio}
  \cup {<<FcEntry("b1", a1), FcEntry("b2", a2)>> : a1 \in FcStoredAudio, a2 \in FcStoredAudio}

\* handleBotPoolUpdate maps fetchAudioForBot over update.activeBots
FcStart ==
  /\ fc.pc = "start"
  /\ fc' = [pc |-> "fetching", bufs |-> fc.bufs, before |-> fc.bufs,
            attempts |-> [b \in SeqRange(FcBots) |-> 0],
            state |-> [b \in SeqRange(FcBots) |-> "pending"],
            last |-> [b \in SeqRange(FcBots) |-> [kind |-> "none"]]]
  /\ UNCHANGED <<pipelineVars, rateLimited, lt, norm, fan, pb, cy, ps, mon>>

\* the request of bot b's current attempt ends
FcAttempt(b, resp) ==
  /\ fc.pc = "fetching" /\ fc.state[b] = "pending"
  /\ fc' = fetchAttempt(fc, b, resp)
  /\ UNCHANGED <<pipelineVars, rateLimited, lt, norm, fan, pb, cy, ps, mon>>

\* await Promise.allSettled(fetchPromises) resumes; the update removes no bot
FcAllSettled ==
  /\ fc.pc = "fetching" /\ \A b \in SeqRange(FcBots) : fc.state[b] # "pending"
  /\ fc' = [fc EXCEPT !.pc = "settled"]
  /\ UNCHANGED <<pipelineVars, rateLimited, lt, norm, fan, pb, cy, ps, mon>>

(***************************************************************************)
(* TranscriptStreamService.processAudioBuffers, one run after the other,   *)
(* over the stored buffers of two bots whose sessions handleBotPoolUpdate  *)
(* has created                                                             *)
(***************************************************************************)
MaxRuns == 3             \* processAudioBuffers runs in one behaviour

CySessionIds == {SessionIdOf("p1"), SessionIdOf("p2")}
CyEmptyT ==
  [transcriptSessions |-> [sid \in CySessionIds |-> NoSession],
   botToSessionMap |-> [k \in {"b1", "b2", undefined} |-> NoEntry],
   sseClients |-> [sid \in CySessionIds |-> <<>>],
   stats |-> [totalSessions |-> 0, activeSessions |-> 0, totalSegments |-> 0, totalWords |-> 0],
   clientLog |-> [c \in Clients |-> <<>>], clientEnded |-> {},
   createCalls |-> [sid \in CySessionIds |-> 0], stopCalls |-> 0]
\* the service after handleBotPoolUpdate has reported b1 and b2 as new
CyInitialT == createSession(createSession(CyEmptyT, "p1", "b1"), "p2", "b2")

\* audioBuffers when the runs start: a snapshot for b1 and one for b2
CyBufs ==
  {<<FcEntry("b1", a1), FcEntry("b2", a2)>> : a1 \in FcStoredAudio, a2 \in FcStoredAudio}

\* what one transcribeAudio call of a run ends with
CyOutcomes == [kind : {"result"}, transcription : PipelineResults]
              \cup [kind : {"thrown"}, errors : {<<"other">>, <<"rate limit">>}]

CyFrame == <<pipelineVars, rateLimited, lt, norm, fan, fc, pb, ps, mon>>

\* an interval callback fires when no run is in flight
CyTick ==
  /\ cy.pc = "idle" /\ cy.run < MaxRuns
  /\ LET r == processAudioBuffers(cy.T, getAllAudioBuffers(cy.bufs), cy.stable)
     IN cy' = [cy EXCEPT !.pc = r.tick.pc, !.T = r.T, !.tick = r.tick, !.run = @ + 1]
  /\ UNCHANGED CyFrame

\* time passes: every session created so far is older than the start delay
CyElapse ==
  /\ cy.pc \in {"idle", "transcribing"}
  /\ cy.stable < cy.T.stats.totalSessions
  /\ cy' = [cy EXCEPT !.stable = cy.T.stats.totalSessions]
  /\ UNCHANGED CyFrame

\* the transcribeAudio call the run waits on returns or throws; the run goes
\* on with the buffers left.  own is the session of the buffer's bot
CyDone(outcome) ==
  /\ cy.pc = "transcribing"
  /\ LET tick == cy.tick
         own == SessionIdOf(tick.cur.botId)
         appended == outcome.kind = "result" /\ outcome.transcription.segments # <<>>
         T2 == transcribeReturned(cy.T, tick, outcome)
         r == processAudioBuffers(T2, tick.queue, cy.stable)
     IN /\ appended =>
             Len(cy.T.transcriptSessions[tick.sessionId].segments)
               + Len(outcome.transcription.segments) <= MaxSegments
        /\ cy' = [cy EXCEPT
                    !.pc = r.tick.pc, !.T = r.T, !.tick = r.tick,
                    !.calls = Append(@, [run |-> cy.run, botId |-> tick.cur.botId,
                                         fingerprint |-> tick.cur.fingerprint,
                                         appended |-> appended,
                                         before |-> cy.T.transcriptSessions[own],
                                         after |-> T2.transcriptSessions[own]])]
  /\ UNCHANGED CyFrame

(***************************************************************************)
(* BotPoolMonitor.processBotUpdates on the registry's array and the        *)
(* activeBots Map, call after call                                         *)
(***************************************************************************)
\* a bot of the registry's answer
PbBot(b, url) == [legacyBotId |-> b, poolBotId |-> FcPoolBotId(b), audioBlobUrl |-> url]
PbBots == {PbBot(b, url) : b \in SeqRange(FcBots), url \in BOOLEAN}
\* response.data.bots: arrays of up to two bots
PbListings == {<<>>} \cup {<<x>> : x \in PbBots} \cup {<<x, y>> : x \in PbBots, y \in PbBots}

\* a Map as the sequence of its [key, value] entries in insertion order
mapKeys(m) == {m[i].key : i \in 1..Len(m)}
mapGet(m, k) == IF k \in mapKeys(m)
                THEN (CHOOSE i \in 1..Len(m) : m[i].key = k) \* keys are unique
                ELSE 0
mapSet(m, k, v) ==
  IF k \in mapKeys(m)
  THEN [i \in 1..Len(m) |-> IF m[i].key = k THEN [key |-> k, value |-> v] ELSE m[i]]
  ELSE Append(m, [key |-> k, value |-> v])
mapValues(m) == [i \in 1..Len(m) |-> m[i].value]

\* { ...bot, botId: bot.poolBotId, lastSeen, isNew }
activeBotEntry(bot, isNew) ==
  [legacyBotId |-> bot.legacyBotId, poolBotId |-> bot.poolBotId,
   audioBlobUrl |-> bot.audioBlobUrl, botId |-> bot.poolBotId, isNew |-> isNew]

RECURSIVE setAll(_, _, _)
\* bots.forEach(bot => this.activeBots.set(bot.legacyBotId, {...}))
setAll(m, bots, previousBotIds) ==
  IF bots = <<>> THEN m
  ELSE setAll(mapSet(m, Head(bots).legacyBotId,
                     activeBotEntry(Head(bots), Head(bots).legacyBotId \notin previousBotIds)),
              Tail(bots), previousBotIds)

\* the forEach without the clear() before it
rebuildActiveBotsNoClear(m, bots, previousBotIds) == setAll(m, bots, previousBotIds)

\* this.activeBots.clear(); bots.forEach(...)
rebuildActiveBots(m, bots, previousBotIds) == setAll(<<>>, bots, previousBotIds)

\* processBotUpdates(bots) with this.activeBots = m: the Map it leaves and
\* the update it hands to notifyListeners, if it notifies
processBotUpdatesMap(m, bots) ==
  LET currentBotIds == {bots[i].legacyBotId : i \in 1..Len(bots)}
      previousBotIds == mapKeys(m)
      newBots == SelectSeq(bots, LAMBDA bot : bot.legacyBotId \notin previousBotIds)
      removedBotIds == previousBotIds \ currentBotIds
      botsWithNewAudio ==
        SelectSeq(bots, LAMBDA bot :
          /\ bot.legacyBotId \in previousBotIds
          /\ ~m[mapGet(m, bot.legacyBotId)].value.audioBlobUrl
          /\ bot.audioBlobUrl)
      m1 == rebuildActiveBots(m, bots, previousBotIds)
  IN [activeBots |-> m1,
      notified |-> newBots # <<>> \/ removedBotIds # {} \/ botsWithNewAudio # <<>>,
      update |-> [type |-> "update", newBots |-> newBots, removedBots |-> removedBotIds,
                  activeBots |-> mapValues(m1), botsWithNewAudio |-> botsWithNewAudio]]

PbFrame == <<pipelineVars, rateLimited, lt, norm, fan, fc, cy, ps, mon>>

\* poll() has its answer and calls processBotUpdates(bots)
PbProcess(bots) ==
  /\ LET r == processBotUpdatesMap(pb.activeBots, bots)
     IN pb' = [pc |-> "processed", activeBots |-> r.activeBots, previous |-> pb.activeBots,
               bots |-> bots, notified |-> r.notified, update |-> r.update]
  /\ UNCHANGED PbFrame

\* poll() fails while bots are held: processBotUpdates([])
PbClear ==
  /\ pb.activeBots # <<>>
  /\ LET r == processBotUpdatesMap(pb.activeBots, <<>>)
     IN pb' = [pc |-> "cleared", activeBots |-> r.activeBots, previous |-> pb.activeBots,
               bots |-> <<>>, notified |-> r.notified, update |-> r.update]
  /\ UNCHANGED PbFrame

(***************************************************************************)
(* GeminiTranscriptionService.parseTranscriptionResponse.  A string is the *)
(* sequence of its characters, "a" for a letter and " " for white space;   *)
(* the empty sequence also stands for a missing (undefined) JSON string,   *)
(* which the code treats alike through || and &&, and 0 for a missing      *)
(* number.                                                                 *)
(***************************************************************************)
MaxStrLen == 3           \* characters of a text in a provider response

Chars == {"a", " "}
Strs == SeqsUpTo(Chars, MaxStrLen)

RECURSIVE trimStart(_)
trimStart(str) == IF str # <<>> /\ Head(str) = " " THEN trimStart(Tail(str)) ELSE str
RECURSIVE trimEnd(_)
trimEnd(str) ==
  IF str # <<>> /\ str[Len(str)] = " " THEN trimEnd(SubSeq(str, 1, Len(str) - 1)) ELSE str
\* str.trim()
trim(str) == trimEnd(trimStart(str))

\* str.split(/\s+/).filter(word => word.length > 0).length
splitWords(str) ==
  Cardinality({i \in 1..Len(str) : str[i] # " " /\ (i = 1 \/ str[i - 1] = " ")})

RECURSIVE join(_)
\* strs.join(' ')
join(strs) ==
  IF strs = <<>> THEN <<>>
  ELSE IF Len(strs) = 1 THEN strs[1]
  ELSE strs[1] \o <<" ">> \o join(Tail(strs))

\* combineSegmentsToText(segments)
combineSegmentsToText(segments) ==
  join(SelectSeq([i \in 1..Len(segments) |-> segments[i].text],
                 LAMBDA text : text # <<>> /\ trim(text) # <<>>))

TranscriptionFailed == <<"T", " ", "f">>     \* the literal 'Transcription failed'

\* extractFallbackText(responseText): the lines without braces and quotes
extractFallbackText(lines) ==
  LET textLines == SelectSeq(lines, LAMBDA line : trim(line.text) # <<>> /\ ~line.marks)
      joined == trim(join([i \in 1..Len(textLines) |-> textLines[i].text]))
  IN IF joined # <<>> THEN joined ELSE TranscriptionFailed

\* a segment of the provider's JSON: speaker "" is a missing one
RawSegments ==
  [speaker : {"", "Ada"}, text : {<<>>, <<" ">>, <<"a">>, <<"a", " ", "a">>},
   startTime : {0, 3}, endTime : {0, 4}, confidence : {0}]

\* the provider's response text: not JSON (its lines, marks = the line holds a
\* brace or a quote), JSON without a segments array, or JSON with one
ResponseTexts ==
  [kind : {"not json"},
   lines : SeqsUpTo([text : {<<" ">>, <<"a", " ", "a">>}, marks : BOOLEAN], 2)]
  \cup [kind : {"no segments"}, lines : {<<[text |-> <<"a">>, marks |-> TRUE]>>}]
  \cup [kind : {"json"}, segments : SeqsUpTo(RawSegments, 1), fullText : {<<>>, <<"a">>},
        wordCount : {0, 7}, detectedLanguage : {"", "en"}, languageConfidence : {0, 9}]
  \cup [kind : {"json"},
        segments : {<<x, y>> : x \in {r \in RawSegments : r.startTime = 0 /\ r.endTime = 4},
                               y \in {r \in RawSegments : r.speaker = "Ada" /\ r.startTime = 3}},
        fullText : {<<>>}, wordCount : {0}, detectedLanguage : {"en"},
        languageConfidence : {9}]

\* the catch branch: one utterance holding the fallback text
parseFallback(lines) ==
  LET fallbackText == extractFallbackText(lines)
  IN [detectedLanguage |-> "unknown", languageConfidence |-> 0,
      segments |-> <<[speaker |-> "Unknown", text |-> fallbackText, startTime |-> 0,
                      endTime |-> 0, confidence |-> 0]>>,
      fullText |-> fallbackText,
      wordCount |-> splitWords(fallbackText)]

\* if (!parsed.wordCount) parsed.wordCount = parsed.fullText ? ... : 0
parsedWordCount(parsed) ==
  IF parsed.wordCount # 0 THEN parsed.wordCount
  ELSE IF parsed.fullText # <<>> THEN splitWords(parsed.fullText) ELSE 0

parseTranscriptionResponse(response) ==
  IF response.kind \in {"not json", "no segments"} THEN parseFallback(response.lines)
  ELSE [detectedLanguage |-> IF response.detectedLanguage # "" THEN response.detectedLanguage
                             ELSE "unknown",
        languageConfidence |-> response.languageConfidence,
        segments |-> [i \in 1..Len(response.segments) |->
                        [speaker |-> IF response.segments[i].speaker # ""
                                     THEN response.segments[i].speaker ELSE "Unknown",
                         text |-> response.segments[i].text,
                         startTime |-> response.segments[i].startTime,
                         endTime |-> response.segments[i].endTime,
                         confidence |-> response.segments[i].confidence]],
        fullText |-> IF response.fullText # <<>> THEN response.fullText
                     ELSE combineSegmentsToText(response.segments),
        wordCount |-> parsedWordCount(response)]

SliceDurations == {30, 60}   \* seconds of audio handed to the provider

PsFrame == <<pipelineVars, rateLimited, lt, norm, fan, fc, pb, cy, mon>>

\* transcribeAudio has the provider's text and parses it
ParseReturn ==
  /\ ps.pc = "call"
  /\ ps' = [ps EXCEPT !.pc = "done", !.result = parseTranscriptionResponse(ps.response)]
  /\ UNCHANGED PsFrame

(***************************************************************************)
(* BotPoolMonitor: start, stop, forcePoll, the poll timers and the polls   *)
(* in flight.  m is the monitor: isMonitoring, activeBots, pollTimer (the  *)
(* handle the field holds: "null", "live" for a scheduled timer, "stale"   *)
(* for one that has fired or was cleared), orphans (scheduled poll timers  *)
(* no field refers to), inflight (poll() calls waiting for the registry),  *)
(* restarts (scheduled start() calls of onRecover).                        *)
(***************************************************************************)
MaxChains == 2           \* polls in flight plus poll timers scheduled

\* the registry's answers for the polling chains
MonListings ==
  {<<>>, <<PbBot("b1", FALSE)>>, <<PbBot("b1", TRUE)>>, <<PbBot("b2", FALSE)>>,
   <<PbBot("b1", FALSE), PbBot("b2", FALSE)>>}

liveTimers(m) == m.orphans + (IF m.pollTimer = "live" THEN 1 ELSE 0)
chains(m) == m.inflight + liveTimers(m)

\* poll() up to its await: returns at once when not monitoring
pollEnter(m) ==
  IF ~m.isMonitoring THEN m
  ELSE [m EXCEPT !.inflight = @ + 1, !.justSettled = FALSE]

\* clearTimeout(this.pollTimer)
clearPollTimer(m) == [m EXCEPT !.pollTimer = IF @ = "live" THEN "stale" ELSE @]

\* this.pollTimer = setTimeout(() => this.poll(), ...): the timer the field
\* referred to stays scheduled
setPollTimer(m) ==
  [m EXCEPT !.orphans = IF m.pollTimer = "live" THEN @ + 1 ELSE @, !.pollTimer = "live"]

\* a catch branch that schedules nothing
scheduleRetryNever(m) == m

\* the catch branch of poll(): setTimeout(() => this.poll(), retryDelay)
scheduleRetry(m) == setPollTimer(m)

monStart(m) ==
  IF m.isMonitoring THEN m ELSE pollEnter([m EXCEPT !.isMonitoring = TRUE])

monStop(m) ==
  IF ~m.isMonitoring THEN m
  ELSE [clearPollTimer(m) EXCEPT !.isMonitoring = FALSE, !.pollTimer = "null"]

\* processBotUpdates inside poll(): the Map is rebuilt and the listeners are
\* called whether or not the monitor is still monitoring; notifyListeners
\* catches what a listener throws (throws: the listener called throws) and
\* returns normally
monProcess(m, bots, throws) ==
  LET r == processBotUpdatesMap(m.activeBots, bots)
  IN [m EXCEPT !.activeBots = r.activeBots,
               !.lastNotify = IF ~r.notified THEN @
                              ELSE IF m.isMonitoring THEN "monitoring" ELSE "stopped",
               !.listenerThrew = r.notified /\ throws]

MonFrame == <<pipelineVars, rateLimited, lt, norm, fan, fc, pb, cy, ps>>

MonStart ==
  /\ chains(monStart(mon)) <= MaxChains
  /\ mon' = monStart(mon)
  /\ UNCHANGED MonFrame

MonStop ==
  /\ mon' = monStop(mon)
  /\ UNCHANGED MonFrame

\* forcePoll(): throws when not monitoring, else clears the timer and polls
MonForcePoll ==
  /\ mon.isMonitoring
  /\ chains(pollEnter(clearPollTimer(mon))) <= MaxChains
  /\ mon' = pollEnter(clearPollTimer(mon))
  /\ UNCHANGED MonFrame

\* a scheduled poll timer fires: the one the field holds, or another one
MonTimerFire ==
  /\ \/ /\ mon.pollTimer = "live"
        /\ mon' = pollEnter([mon EXCEPT !.pollTimer = "stale"])
     \/ /\ mon.orphans > 0
        /\ mon' = pollEnter([mon EXCEPT !.orphans = @ - 1])
  /\ UNCHANGED MonFrame

\* fetchActiveBots resolves: processBotUpdates, then the next poll is scheduled
MonPollSuccess(bots, throws) ==
  /\ mon.inflight > 0
  /\ mon' = [setPollTimer(monProcess([mon EXCEPT !.inflight = @ - 1], bots, throws))
               EXCEPT !.justSettled = TRUE, !.lastOutcome = "ok"]
  /\ UNCHANGED MonFrame

\* fetchActiveBots rejects: the listing is cleared if there is one, and the
\* retry is scheduled
MonPollError(throws) ==
  /\ mon.inflight > 0
  /\ LET m1 == [mon EXCEPT !.inflight = @ - 1]
         m2 == IF m1.activeBots # <<>> THEN monProcess(m1, <<>>, throws)
               ELSE [m1 EXCEPT !.listenerThrew = FALSE]
     IN mon' = [scheduleRetry(m2) EXCEPT !.justSettled = TRUE, !.lastOutcome = "error"]
  /\ UNCHANGED MonFrame

\* ServiceMonitor's onRecover: stop() now, start() after two seconds
MonRecover ==
  /\ mon.restarts < MaxChains
  /\ mon' = [monStop(mon) EXCEPT !.restarts = @ + 1]
  /\ UNCHANGED MonFrame

MonRestartFire ==
  /\ mon.restarts > 0
  /\ chains(monStart(mon)) <= MaxChains
  /\ mon' = [monStart(mon) EXCEPT !.restarts = @ - 1]
  /\ UNCHANGED MonFrame

(***************************************************************************)
(* Session state and SSE fan-out, driven through the service's calls       *)
(***************************************************************************)
IdleFan == [pc |-> "idle"]

fanFrame == <<activeBots, pollState, afsIsRunning, audioBuffers, fetchPromises, fetches,
              afsUpdates, tssIsRunning, ticks, stableUpTo, createsSinceEntered, hasLeft,
              unchangedFetch, succeeded, lt, norm, rateLimited, auxVars>>

\* handleBotPoolUpdate meets an active bot that has no botToSessionMap entry
\* (here: a bot that has had no session yet)
FanCreateSession(b) ==
  /\ botToSessionMap[b] = NoEntry
  /\ transcriptSessions[SessionIdOf(PoolBotId[b])].status = "absent"
  /\ SetTSS(createSession(TSS, PoolBotId[b], b))
  /\ fan' = IdleFan
  /\ UNCHANGED fanFrame

\* handleBotPoolUpdate meets a bot that is listed again after its session
\* was stopped: the index has no entry for it, createSession runs again for
\* the same session id
FanReenter(b) ==
  /\ botToSessionMap[b] = NoEntry
  /\ transcriptSessions[SessionIdOf(PoolBotId[b])].status = "stopped"
  /\ SetTSS(createSession(TSS, PoolBotId[b], b))
  /\ fan' = IdleFan
  /\ UNCHANGED fanFrame

\* the initial event of enhanced-transcripts' live route: the session's
\* aggregates at the time of the request
initialData(session) ==
  [type |-> "connected", sessionId |-> session.sessionId,
   currentDuration |-> session.duration, wordCount |-> session.wordCount,
   segmentCount |-> Len(session.segments)]

\* the initial event of transcripts' live route
connectedMessage == [type |-> "connected", message |-> "Connected to transcript stream"]

\* GET /:sessionId/live of enhanced-transcripts: 404 without a session, else
\* the 'connected' event is written and the response is registered
Subscribe(sessionId, res) ==
  /\ transcriptSessions[sessionId].status # "absent"
  /\ clientLog[res] = <<>>
  /\ SetTSS(addSSEClient([TSS EXCEPT !.clientLog[res] =
                                      Append(@, initialData(transcriptSessions[sessionId]))],
                         sessionId, res))
  /\ fan' = IdleFan
  /\ UNCHANGED fanFrame

\* GET /:sessionId/live of transcripts: getTranscript returns null for a
\* missing session and does not throw, so the 404 branch is never taken; the
\* 'connected' event is written and the response is registered
SubscribeTranscripts(sessionId, res) ==
  /\ clientLog[res] = <<>>
  /\ SetTSS(addSSEClient([TSS EXCEPT !.clientLog[res] = Append(@, connectedMessage)],
                         sessionId, res))
  /\ fan' = IdleFan
  /\ UNCHANGED fanFrame

\* req.on('close'): removeSSEClient(sessionId, res)
Disconnect(sessionId, res) ==
  /\ res \in SeqRange(sseClients[sessionId])
  /\ SetTSS(removeSSEClient(TSS, sessionId, res))
  /\ fan' = IdleFan
  /\ UNCHANGED fanFrame

FanRecord(op, sessionId, data, failing) ==
  [pc |-> "broadcast", op |-> op, sessionId |-> sessionId, before |-> sseClients[sessionId],
   failing |-> failing, events |-> EventsOf(data), logBefore |-> clientLog]

\* updateSession(sessionId, transcription) with the writes to failing throwing
FanUpdate(sessionId, transcription, failing) ==
  /\ transcriptSessions[sessionId].status # "absent"
  /\ transcription.segments # <<>>
  /\ Len(transcriptSessions[sessionId].segments) + Len(transcription.segments) <= MaxSegments
  /\ failing \subseteq SeqRange(sseClients[sessionId])
  /\ SetTSS(updateSession(TSS, sessionId, transcription, failing))
  /\ fan' = FanRecord("update", sessionId,
                      [type |-> "transcript_update", segments |-> transcription.segments],
                      failing)
  /\ UNCHANGED fanFrame

\* stopSession(sessionId) with the writes to failing throwing
FanStop(sessionId, failing) ==
  /\ transcriptSessions[sessionId].status # "absent"
  /\ failing \subseteq SeqRange(sseClients[sessionId])
  /\ SetTSS(stopSession(TSS, sessionId, failing))
  /\ fan' = FanRecord("stop", sessionId, [type |-> "session_stopped"], failing)
  /\ UNCHANGED fanFrame

(***************************************************************************)
(* Specifications                                                          *)
(***************************************************************************)
Init == InitPipeline /\ InitAux /\ lt = IdleLong /\ norm = IdleNorm /\ fan = IdleFan

Next ==
  \/ PollStart
  \/ \E bots \in Listings : PollSuccess(bots)
  \/ PollError
  \/ \E f \in fetches, resp \in FetchResponses : FetchSettle(f, resp)
  \/ AFSStop
  \/ TickStart
  \/ \E t \in 1..MaxTicks, outcome \in TranscribeOutcomes : TranscribeDone(t, outcome)
  \/ Elapse
  \/ RetryAfterElapsed
  \/ \E sessionId \in SessionIds : StopRoute(sessionId)
  \/ TSSStop

Spec == Init /\ [][Next]_vars

InitLong ==
  /\ InitPipeline /\ InitAux /\ norm = IdleNorm /\ fan = IdleFan
  /\ lt \in [pc : {"start"}, duration : LongDurations]

NextLong ==
  \/ LongStart
  \/ \E segments \in WindowResults : LongChunkOk(segments)
  \/ \E rateLimit \in BOOLEAN : LongChunkFail(rateLimit)
  \/ LongCombine

SpecLong == InitLong /\ [][NextLong]_vars

InitNorm == InitPipeline /\ InitAux /\ lt = IdleLong /\ fan = IdleFan /\ norm \in NormInputs

NextNorm == NormReturn

SpecNorm == InitNorm /\ [][NextNorm]_vars

InitFan == Init

NextFan ==
  \/ \E b \in Bots : FanCreateSession(b)
  \/ \E sessionId \in SessionIds, res \in Clients : Subscribe(sessionId, res)
  \/ \E sessionId \in SessionIds, res \in Clients : SubscribeTranscripts(sessionId, res)
  \/ \E sessionId \in SessionIds, res \in Clients : Disconnect(sessionId, res)
  \/ \E sessionId \in SessionIds, transcription \in PipelineResults,
        failing \in SUBSET Clients : FanUpdate(sessionId, transcription, failing)
  \/ \E sessionId \in SessionIds, failing \in SUBSET Clients : FanStop(sessionId, failing)

SpecFan == InitFan /\ [][NextFan]_vars

\* a session over its bot's memberships: created, appended to, stopped, and
\* created again when the bot is listed again
InitLife == Init

NextLife ==
  \/ \E b \in Bots : FanCreateSession(b)
  \/ \E b \in Bots : FanReenter(b)
  \/ \E sessionId \in SessionIds, res \in Clients : Subscribe(sessionId, res)
  \/ \E sessionId \in SessionIds, transcription \in PipelineResults :
        FanUpdate(sessionId, transcription, {})
  \/ \E sessionId \in SessionIds : FanStop(sessionId, {})

SpecLife == InitLife /\ [][NextLife]_vars

InitFetch ==
  /\ InitPipeline /\ lt = IdleLong /\ norm = IdleNorm /\ fan = IdleFan
  /\ pb = IdleAux /\ cy = IdleAux /\ ps = IdleAux /\ mon = IdleAux
  /\ fc \in [pc : {"start"}, bufs : FcInitialBufs]

NextFetch ==
  \/ FcStart
  \/ \E b \in SeqRange(FcBots), resp \in AttemptResponses : FcAttempt(b, resp)
  \/ FcAllSettled

SpecFetch == InitFetch /\ [][NextFetch]_vars

InitCycle ==
  /\ InitPipeline /\ lt = IdleLong /\ norm = IdleNorm /\ fan = IdleFan
  /\ fc = IdleAux /\ pb = IdleAux /\ ps = IdleAux /\ mon = IdleAux
  /\ cy \in [pc : {"idle"}, T : {CyInitialT}, bufs : CyBufs, tick : {IdleTick},
             stable : {0}, run : {0}, calls : {<<>>}]

NextCycle ==
  \/ CyTick
  \/ CyElapse
  \/ \E outcome \in CyOutcomes : CyDone(outcome)

SpecCycle == InitCycle /\ [][NextCycle]_vars

InitPool ==
  /\ InitPipeline /\ lt = IdleLong /\ norm = IdleNorm /\ fan = IdleFan
  /\ fc = IdleAux /\ cy = IdleAux /\ ps = IdleAux /\ mon = IdleAux
  /\ pb = [pc |-> "start", activeBots |-> <<>>]

NextPool ==
  \/ \E bots \in PbListings : PbProcess(bots)
  \/ PbClear

SpecPool == InitPool /\ [][NextPool]_vars

InitParse ==
  /\ InitPipeline /\ lt = IdleLong /\ norm = IdleNorm /\ fan = IdleFan
  /\ fc = IdleAux /\ pb = IdleAux /\ cy = IdleAux /\ mon = IdleAux
  /\ ps \in [pc : {"call"}, response : ResponseTexts, duration : SliceDurations,
             result : {<<>>}]

NextParse == ParseReturn

SpecParse == InitParse /\ [][NextParse]_vars

\* the monitor after construction
NewMonitor ==
  [isMonitoring |-> FALSE, activeBots |-> <<>>, pollTimer |-> "null", orphans |-> 0,
   inflight |-> 0, restarts |-> 0, justSettled |-> FALSE, lastOutcome |-> "none",
   lastNotify |-> "none", listenerThrew |-> FALSE]

InitMonitor ==
  /\ InitPipeline /\ lt = IdleLong /\ norm = IdleNorm /\ fan = IdleFan
  /\ fc = IdleAux /\ pb = IdleAux /\ cy = IdleAux /\ ps = IdleAux
  /\ mon = NewMonitor

NextMonitor ==
  \/ MonStart
  \/ MonStop
  \/ MonForcePoll
  \/ MonTimerFire
  \/ \E bots \in MonListings, throws \in BOOLEAN : MonPollSuccess(bots, throws)
  \/ \E throws \in BOOLEAN : MonPollError(throws)
  \/ MonRecover
  \/ MonRestartFire

SpecMonitor == InitMonitor /\ [][NextMonitor]_vars

\* the monitor started and never stopped: timers fire and registry requests
\* settle (the request has a timeout and a bounded number of retries)
InitMonitorLive ==
  /\ InitPipeline /\ lt = IdleLong /\ norm = IdleNorm /\ fan = IdleFan
  /\ fc = IdleAux /\ pb = IdleAux /\ cy = IdleAux /\ ps = IdleAux
  /\ mon = monStart(NewMonitor)

NextMonitorLive ==
  \/ MonForcePoll
  \/ MonTimerFire
  \/ \E bots \in MonListings, throws \in BOOLEAN : MonPollSuccess(bots, throws)
  \/ \E throws \in BOOLEAN : MonPollError(throws)

SpecMonitorLive ==
  /\ InitMonitorLive /\ [][NextMonitorLive]_vars
  /\ WF_vars(MonTimerFire)
  /\ WF_vars((\E bots \in MonListings, throws \in BOOLEAN : MonPollSuccess(bots, throws))
             \/ (\E throws \in BOOLEAN : MonPollError(throws)))

(***************************************************************************)
(* Properties                                                              *)
(***************************************************************************)
InFlight == {t \in 1..MaxTicks : ticks[t].pc = "transcribing"}

\* C1: while the service runs and an entity is listed, exactly one
\* createSession call was made for it since the update that reported it entered
C1_OneCreatePerEntity ==
  \A b \in Bots : tssIsRunning /\ b \in DOMAIN activeBots => createsSinceEntered[b] = 1

\* C2: once a fetch has returned the audio already stored for an entity, at
\* most one transcription of that stored audio has been made and appended
C2_TranscribedOnce ==
  \A b \in Bots : unchangedFetch[b] /\ BufHas(audioBuffers, b) => succeeded[b] <= 1

\* C3: when the snapshot handed to the provider extends the snapshot the
\* session has already processed, what is handed over is the new tail only
C3_OnlyNewTail ==
  \A t \in InFlight : \A P \in Audio :
    LET session == transcriptSessions[ticks[t].sessionId]
        cur == ticks[t].cur
    IN (/\ session.status # "absent"
        /\ session.startedAt = ticks[t].startedAt
        /\ session.lastProcessedFingerprint = calculateAudioFingerprint(P)
        /\ IsProperPrefix(P, cur.buffer))
       => cur.incrementalBuffer = SubSeq(cur.buffer, Len(P) + 1, Len(cur.buffer))

\* C4: a step that finds a session stopped and leaves it that session changes
\* neither its segments, aggregates and context nor the global segment count,
\* and writes nothing to a subscriber
C4_StoppedSessionUnchanged ==
  [][\A sid \in SessionIds :
       (/\ transcriptSessions[sid].status = "stopped"
        /\ transcriptSessions'[sid].status = "stopped"
        /\ transcriptSessions'[sid].startedAt = transcriptSessions[sid].startedAt)
       => /\ transcriptSessions'[sid].segments = transcriptSessions[sid].segments
          /\ transcriptSessions'[sid].speakers = transcriptSessions[sid].speakers
          /\ transcriptSessions'[sid].wordCount = transcriptSessions[sid].wordCount
          /\ transcriptSessions'[sid].duration = transcriptSessions[sid].duration
          /\ transcriptSessions'[sid].context = transcriptSessions[sid].context
          /\ stats'.totalSegments = stats.totalSegments
          /\ clientLog' = clientLog]_vars

\* C5: after an entity was reported removed and until it is reported entered
\* again, botToSessionMap has no entry for it and no session of it is active
C5_LeftEntityHasNoSession ==
  \A b \in Bots : hasLeft[b] =>
    /\ botToSessionMap[b] = NoEntry
    /\ SessionIdOf(PoolBotId[b]) \notin getActiveSessions(TSS)

\* C6: after a broadcast in which the writes to some subscribers threw, every
\* other subscriber registered at its start has received the event, the
\* failing ones are unregistered, and the caller went on (an update keeps the
\* others registered, a stop ends and clears them)
C6_FanOutIsolated ==
  fan.pc = "broadcast" =>
    LET before == SeqRange(fan.before)
        sid == fan.sessionId
    IN /\ \A c \in before \ fan.failing : clientLog[c] = fan.logBefore[c] \o fan.events
       /\ \A c \in before \cap fan.failing : c \notin SeqRange(sseClients[sid])
       /\ fan.op = "update" => SeqRange(sseClients[sid]) = before \ fan.failing
       /\ fan.op = "stop" => sseClients[sid] = <<>> /\ (before \ fan.failing) \subseteq clientEnded

\* three subscribers, the write to the second one throws
C6_Witness ==
  /\ fan.pc = "broadcast" /\ fan.op = "update"
  /\ fan.before = <<"c1", "c2", "c3">> /\ fan.failing = {"c2"}
  /\ Len(clientLog["c1"]) > 1 /\ Len(clientLog["c3"]) > 1
  /\ SeqRange(sseClients[fan.sessionId]) = {"c1", "c3"}

StartsOrdered(segments) ==
  \A i, j \in 1..Len(segments) : i <= j => segments[i].startTime <= segments[j].startTime
InsideWindow(segments, chunk) ==
  \A i \in 1..Len(segments) :
    /\ 0 <= segments[i].startTime /\ segments[i].startTime <= segments[i].endTime
    /\ segments[i].endTime <= chunk.endTime - chunk.startTime
OkCalls(l) == SelectSeq(l.calls, LAMBDA c : c.ok)

\* C7: for an audio longer than the window size W, transcribeLongAudio uses
\* ceil(D/W) windows, window k (from 1) covering [(k-1)W, min(kW, D)], one
\* provider call per window in order; every utterance returned for window k at
\* local time t is in the merged result at (k-1)W + t; and the merged start
\* times are non-decreasing when every window's utterances are ordered and
\* lie inside the window
C7_WindowsAndOffsets ==
  (lt.pc \in {"chunk", "done"} /\ lt.duration > ChunkDuration) =>
    LET W == ChunkDuration
        D == lt.duration
        n == Len(lt.chunks)
        ok == OkCalls(lt)
    IN /\ (n - 1) * W < D /\ D <= n * W
       /\ \A k \in 1..n :
            /\ lt.chunks[k].startTime = (k - 1) * W
            /\ lt.chunks[k].endTime = (IF k * W <= D THEN k * W ELSE D)
       /\ \A j \in 1..Len(lt.calls) : lt.calls[j].call.window = j
       /\ Len(lt.transcriptions) = Len(ok)
       /\ \A m \in 1..Len(ok) :
            LET got == lt.transcriptions[m].segments
                ret == ok[m].returned
                k == ok[m].call.window
            IN /\ Len(got) = Len(ret)
               /\ \A i \in 1..Len(ret) :
                    /\ got[i].startTime = (k - 1) * W + ret[i].startTime
                    /\ got[i].endTime = (k - 1) * W + ret[i].endTime
                    /\ got[i].speaker = ret[i].speaker /\ got[i].text = ret[i].text
       /\ lt.pc = "done" =>
            /\ Len(lt.calls) = n
            /\ lt.result.segments = flatMapSegments(lt.transcriptions)
            /\ (\A m \in 1..Len(ok) :
                  StartsOrdered(ok[m].returned)
                  /\ InsideWindow(ok[m].returned, lt.chunks[ok[m].call.window]))
               => StartsOrdered(lt.result.segments)

\* D = 620, W = 300: three windows, the third one's utterance at local time
\* 10 is in the merged result at 610
C7_Witness ==
  /\ lt.pc = "done" /\ lt.duration = 620 /\ ChunkDuration = 300
  /\ Len(lt.chunks) = 3 /\ Len(lt.calls) = 3
  /\ lt.calls[1].ok /\ lt.calls[2].ok /\ lt.calls[3].ok
  /\ lt.calls[1].returned # <<>> /\ lt.calls[2].returned # <<>>
  /\ Len(lt.calls[3].returned) = 1 /\ lt.calls[3].returned[1].startTime = 10
  /\ lt.result.segments[Len(lt.result.segments)].startTime = 610

\* C8: with a roster of one and named speakers requested, every utterance
\* transcribeAudio returns carries that participant's roster name, whatever
\* the label in the provider's response
C8_SingleRosterName ==
  (norm.pc = "done" /\ Len(norm.participants) = 1 /\ ~norm.useGenericSpeakers) =>
    /\ Len(norm.segments) = Len(norm.labels)
    /\ \A i \in 1..Len(norm.segments) :
         norm.segments[i].speaker = participantName(norm.participants[1])

\* roster ["Ada"]; the response carries an empty label, a generic one and
\* somebody else's name
C8_Witness ==
  /\ norm.pc = "done" /\ ~norm.useGenericSpeakers
  /\ norm.participants = <<[name |-> "Ada", email |-> "ada@x.org"]>>
  /\ norm.labels = <<"", "Speaker 1", "Zed">>
  /\ \A i \in 1..3 : norm.segments[i].speaker = "Ada"

\* C9: at most one audio request is in flight for a legacyBotId
C9_SingleFlight == \A b \in Bots : Cardinality(FetchesOf(b)) <= 1

\* C10: a createSession call for an entity whose session is active leaves
\* that session and the counters totalSessions and activeSessions as they were
C10_CreateSessionIdempotent ==
  [][\A sid \in SessionIds :
       (createCalls'[sid] > createCalls[sid] /\ transcriptSessions[sid].status = "active")
       => /\ transcriptSessions'[sid] = transcriptSessions[sid]
          /\ stats'.totalSessions = stats.totalSessions
          /\ stats'.activeSessions = stats.activeSessions]_vars

\* C11: a stopSession call on a session leaves it with status 'stopped' and
\* readable through getTranscript, leaves no subscriber registered for it, and
\* leaves no botToSessionMap entry that leads to it
C11_StopSessionContract ==
  [][\A sid \in SessionIds :
       (/\ stopCalls' > stopCalls
        /\ transcriptSessions[sid].status = "active"
        /\ transcriptSessions'[sid].status = "stopped")
       => /\ getTranscript([transcriptSessions |-> transcriptSessions'], sid)
               # NoTranscript
          /\ getTranscript([transcriptSessions |-> transcriptSessions'], sid)
               .metadata.status = "stopped"
          /\ sseClients'[sid] = <<>>
          /\ \A k \in MapKeys : botToSessionMap'[k] # sid]_vars

\* C12: the first event a subscriber of a session receives is the 'connected'
\* snapshot carrying the session's aggregates at that moment (duration, word
\* count, segment count), and it is written before the subscriber is
\* registered for transcript_update events
C12_SnapshotFirst ==
  [][\A sid \in SessionIds : \A c \in Clients :
       (/\ transcriptSessions[sid].status # "absent"
        /\ c \notin SeqRange(sseClients[sid])
        /\ c \in SeqRange(sseClients'[sid]))
       => /\ clientLog[c] = <<>>
          /\ clientLog'[c] = <<initialData(transcriptSessions[sid])>>]_vars

\* C13: a registry request that fails while bots are listed (activeBots is
\* non-empty only after a successful poll, so this is the first failure after
\* a success) keeps activeBots as the last listing, reports no bot removed and
\* stops no session
C13_FailedPollKeepsListing ==
  [][(PollError /\ DOMAIN activeBots # {})
     => /\ activeBots' = activeBots
        /\ ~processBotUpdates(activeBots, activeBots').notify
        /\ stopCalls' = stopCalls
        /\ \A sid \in SessionIds :
             transcriptSessions'[sid].status = transcriptSessions[sid].status]_vars

\* C14: when a registry request succeeds while the audio service runs, every
\* bot of the listing has an audio request in flight afterwards (the one
\* already pending or one started now), whether or not the listing changed
C14_FetchOnEveryPoll ==
  [][(pollState = "polling" /\ pollState' = "timer" /\ afsIsRunning)
     => \A b \in DOMAIN activeBots' : \E f \in fetches' : f.legacyBotId = b]_vars

\* C15: at most one transcription call is in flight for an entity, whatever
\* the number of processing runs (interval callbacks, forced runs) in flight
C15_OneTranscriptionPerEntity ==
  \A p \in BotIds : Cardinality({t \in InFlight : ticks[t].cur.botId = p}) <= 1

\* C16: while the service runs, a step that finds an entity's session stopped
\* and does not report the entity entered again starts no audio request and
\* no transcription call for the entity and creates no session for it
C16_NothingStartedAfterStop ==
  [][\A b \in Bots :
       LET sid == SessionIdOf(PoolBotId[b])
       IN (/\ tssIsRunning
           /\ transcriptSessions[sid].status = "stopped"
           /\ ~(b \notin DOMAIN activeBots /\ b \in DOMAIN activeBots'))
          => /\ createCalls'[sid] = createCalls[sid]
             /\ {f \in fetches' : f.legacyBotId = b} \subseteq fetches
             /\ \A t \in 1..MaxTicks :
                  (ticks'[t].pc = "transcribing" /\ ticks'[t].cur.botId = PoolBotId[b])
                  => ticks'[t] = ticks[t]]_vars

\* C17: a provider rate-limit signal makes transcribeAudio throw a
\* RateLimitError, and until its retryAfter has elapsed no transcription call
\* is started for any entity
C17_RateLimitBackoff ==
  [][/\ rateLimited' \in {"no", "RateLimitError"}
     /\ rateLimited # "no"
          => \A t \in 1..MaxTicks : ticks'[t].pc = "transcribing" => ticks'[t] = ticks[t]]_vars

\* C18: the slice a transcription call of the session pipeline has been
\* handed is no longer than the window size (a longer one is split first)
C18_LongSliceIsSplit ==
  \A t \in InFlight : audioDuration(ticks[t].cur.incrementalBuffer) <= ChunkDuration

\* the last window before window j whose call succeeded, 0 if there is none
LastOkBefore(l, j) ==
  LET S == {i \in 1..(j - 1) : l.calls[i].ok}
  IN IF S = {} THEN 0 ELSE CHOOSE i \in S : \A k \in S : k <= i
\* the context the loop holds when it calls window j
ContextFor(l, j) ==
  LET i == LastOkBefore(l, j)
  IN IF i = 0 THEN nullContext
     ELSE contextAfter(adjustTimestamps(l.calls[i].returned, l.chunks[i]), l.chunks[i])
RateLimitedLast(l) ==
  l.calls # <<>> /\ ~l.calls[Len(l.calls)].ok /\ l.calls[Len(l.calls)].rateLimit
\* what holds of a transcribeLongAudio run whatever its failures: the windows
\* are called one by one in order, a failed one adds nothing, every call gets
\* the context of the last successful window before it, and the result is
\* the merge of the successful windows
SkipsAndGoesOn(l) ==
  /\ \A j \in 1..Len(l.calls) :
       /\ l.calls[j].call.window = j
       /\ l.calls[j].call.previousContext = ContextFor(l, j)
  /\ Len(l.transcriptions) = Len(OkCalls(l))
  /\ l.pc = "done" =>
       /\ Len(l.calls) = Len(l.chunks)
       /\ l.result.segments = flatMapSegments(l.transcriptions)

\* C19 as stated: a run in which a window's call failed, not by a rate limit,
\* skips the window, goes on as above and does not throw
C19_FailedWindowNeverThrows ==
  (lt.pc \in {"chunk", "done", "thrown"} /\ ~RateLimitedLast(lt)) =>
    /\ SkipsAndGoesOn(lt)
    /\ lt.pc # "thrown"

\* C19, amended: the same, and the run throws only when no window succeeded
\* (combineTranscriptions rejects an empty list)
C19_SkipsFailedWindow ==
  (lt.pc \in {"chunk", "done", "thrown"} /\ ~RateLimitedLast(lt)) =>
    /\ SkipsAndGoesOn(lt)
    /\ lt.pc = "thrown" => (Len(lt.calls) = Len(lt.chunks) /\ OkCalls(lt) = <<>>)
    /\ lt.pc = "done" => OkCalls(lt) # <<>>

\* three windows, the second one's call fails: the third is called with the
\* first one's context and the result merges windows one and three
C19_Witness ==
  /\ lt.pc = "done" /\ Len(lt.chunks) = 3
  /\ lt.calls[1].ok /\ ~lt.calls[2].ok /\ lt.calls[3].ok
  /\ lt.calls[1].returned # <<>> /\ lt.calls[3].returned # <<>>
  /\ lt.calls[3].call.previousContext
       = contextAfter(adjustTimestamps(lt.calls[1].returned, lt.chunks[1]), lt.chunks[1])
  /\ Len(lt.result.segments) = Len(lt.calls[1].returned) + Len(lt.calls[3].returned)

\* C20: when an audio request is answered 404, audioBuffers holds no entry
\* for the request's bot afterwards
C20_NotFoundDropsBuffer ==
  [][\A f \in fetches :
       FetchSettle(f, [kind |-> "404"]) => ~BufHas(audioBuffers', f.legacyBotId)]_vars

FcSnapshotUnchanged(F, b) ==
  /\ BufHas(F.bufs, b) <=> BufHas(F.before, b)
  /\ BufHas(F.bufs, b) => BufGet(F.bufs, b) = BufGet(F.before, b)
FcTransient(resp) == resp.kind \in {"5xx", "timeout"}

\* C21: within one handleBotPoolUpdate the audio request of a bot is attempted
\* at most three times; a bot whose attempts all ended in a 5xx or a timeout
\* has been attempted three times, its error is caught and its stored
\* snapshot is as before; and a bot whose fetch returned new audio has it
\* stored, whatever happened to the other bot's fetch
C21_TransientFailureAbsorbed ==
  fc.pc \in {"fetching", "settled"} =>
    \A b \in SeqRange(FcBots) :
      /\ fc.attempts[b] <= FetchMaxRetries + 1
      /\ fc.state[b] \in {"pending", "stored", "null", "caught"}
      /\ (fc.state[b] = "pending" /\ fc.attempts[b] > 0) =>
           (FcTransient(fc.last[b]) /\ FcSnapshotUnchanged(fc, b))
      /\ (fc.state[b] = "caught" /\ FcTransient(fc.last[b])) =>
           (fc.attempts[b] = FetchMaxRetries + 1 /\ FcSnapshotUnchanged(fc, b))
      /\ fc.state[b] = "stored" =>
           /\ BufHas(fc.bufs, b)
           /\ BufGet(fc.bufs, b).buffer = fc.last[b].audio
           /\ BufGet(fc.bufs, b).fingerprint = calculateAudioFingerprint(fc.last[b].audio)

\* b1 has a stored snapshot and its request fails three times, the last time
\* with a 5xx; b2's fetch of the same update stores new audio; the update
\* handler returns
C21_Witness ==
  /\ fc.pc = "settled"
  /\ fc.state["b1"] = "caught" /\ fc.attempts["b1"] = 3 /\ fc.last["b1"].kind = "5xx"
  /\ BufHas(fc.before, "b1") /\ BufGet(fc.bufs, "b1") = BufGet(fc.before, "b1")
  /\ fc.state["b2"] = "stored" /\ ~BufHas(fc.before, "b2")
  /\ BufGet(fc.bufs, "b2").buffer = <<1, 1>>

\* C22: a fetch that returned fewer bytes than the buffer stored for the bot
\* ended with null and left the stored buffer and fingerprint as they were
C22_ShrunkBufferRejected ==
  fc.pc \in {"fetching", "settled"} =>
    \A b \in SeqRange(FcBots) :
      (/\ fc.last[b].kind = "ok" /\ BufHas(fc.before, b)
       /\ ByteLength(fc.last[b].audio) < ByteLength(BufGet(fc.before, b).buffer))
      => (fc.state[b] = "null" /\ FcSnapshotUnchanged(fc, b))

\* the run after run r has gone through all its buffers
CyNextRunOver(r) == cy.run > r + 1 \/ (cy.run = r + 1 /\ cy.pc = "idle")

\* C23: a transcription call that threw or returned no segments has left the
\* session of its bot (segments, aggregates, lastProcessedFingerprint) as it
\* was, and the next processing run submits the same snapshot again
C23_FailedCallRetriedNextRun ==
  \A i \in 1..Len(cy.calls) :
    ~cy.calls[i].appended =>
      /\ cy.calls[i].after = cy.calls[i].before
      /\ CyNextRunOver(cy.calls[i].run) =>
           \E j \in 1..Len(cy.calls) :
             /\ cy.calls[j].run = cy.calls[i].run + 1
             /\ cy.calls[j].botId = cy.calls[i].botId
             /\ cy.calls[j].fingerprint = cy.calls[i].fingerprint

\* C24: within a session the segment ids <sessionId>_seg_<n> are pairwise
\* distinct and their numbers strictly increase in the order of appending
C24_SegmentIdsIncrease ==
  \A sid \in SessionIds :
    SessionExists(TSS, sid) =>
      LET segs == transcriptSessions[sid].segments
      IN \A i, j \in 1..Len(segs) :
         /\ segs[i].id[1] = sid /\ segs[i].id[2] = "_seg_"
         /\ i < j => segs[i].id[3] < segs[j].id[3]

\* a session holds segments of two appends
C24_Witness ==
  \E sid \in SessionIds :
    /\ fan.pc = "broadcast" /\ fan.op = "update" /\ fan.sessionId = sid
    /\ SessionExists(TSS, sid)
    /\ Len(transcriptSessions[sid].segments) = 2
    /\ transcriptSessions[sid].segments[2].id = <<sid, "_seg_", 2>>

\* the largest endTime among segs, 0 for none
MaxEndTime(segs) ==
  IF segs = <<>> THEN 0
  ELSE CHOOSE m \in {segs[i].endTime : i \in 1..Len(segs)} :
         \A i \in 1..Len(segs) : segs[i].endTime <= m

\* C25: session.duration equals the largest endTime among the segments
\* appended to the session
C25_DurationIsLargestEndTime ==
  \A sid \in SessionIds :
    SessionExists(TSS, sid) =>
      transcriptSessions[sid].duration = MaxEndTime(transcriptSessions[sid].segments)

\* C26: an append adds the result's word count to session.wordCount, so that
\* the session's count is the sum over all results appended
C26_WordCountIsSum ==
  [][\A sid \in SessionIds, tr \in PipelineResults, failing \in SUBSET Clients :
       FanUpdate(sid, tr, failing) =>
         transcriptSessions'[sid].wordCount =
           transcriptSessions[sid].wordCount + tr.wordCount]_vars

\* the ids of an array of bots, and the last bot of the array with id k
PbIds(bots) == {bots[i].legacyBotId : i \in 1..Len(bots)}
PbLastWithId(bots, k) ==
  bots[CHOOSE i \in 1..Len(bots) :
         /\ bots[i].legacyBotId = k
         /\ \A j \in (i + 1)..Len(bots) : bots[j].legacyBotId # k]

NamesBefore(l, j) ==
  UNION {SeqRange(SelectSpeakerNames(l.calls[i].returned)) :
           i \in {k \in 1..(j - 1) : l.calls[k].ok}}

\* C28: the windows are called one after the other, and a window called
\* after a successful one gets that window's last speaker, the duration up
\* to that window's end and the non-generic speaker names of all successful
\* windows before it
C28_ContextAccumulates ==
  lt.pc \in {"chunk", "done", "thrown"} =>
  \A j \in 1..Len(lt.calls) :
    /\ lt.calls[j].call.window = j
    /\ LET i == LastOkBefore(lt, j)
           ctx == lt.calls[j].call.previousContext
       IN i # 0 =>
            /\ ~ctx.isNull
            /\ lt.calls[i].returned # <<>> =>
                 ctx.lastSpeaker = lt.calls[i].returned[Len(lt.calls[i].returned)].speaker
            /\ ctx.totalDuration = lt.chunks[i].endTime
            /\ SeqRange(ctx.speakers) = NamesBefore(lt, j)

\* C29: the context a session hands to its next transcription call has the
\* speaker of the last appended segment as lastSpeaker, a totalDuration that
\* covers what has been processed (at least the end of the latest utterance
\* appended), and as speakers exactly the non-generic names appended so far
C29_ContextReflectsAppends ==
  \A sid \in SessionIds :
    (SessionExists(TSS, sid) /\ transcriptSessions[sid].segments # <<>>) =>
      LET session == transcriptSessions[sid]
          ctx == session.context
      IN /\ ctx.lastSpeaker = session.segments[Len(session.segments)].speaker
         /\ ctx.totalDuration >= MaxEndTime(session.segments)
         /\ SeqRange(ctx.speakers) = SeqRange(SelectSpeakerNames(session.segments))

\* the roster names and whether a parsed label counts as generic or as
\* matching no roster name
RosterNames(participants) ==
  [i \in 1..Len(participants) |-> participantName(participants[i])]
GenericOrUnmatched(label, names) ==
  LET speaker == parsedSpeaker(label)
  IN \/ speaker = "Unknown" \/ speaker = "Speaker" \/ MatchesSpeakerN(speaker)
     \/ (speaker \notin SeqRange(names) /\ fuzzyMatches(names, speaker) = <<>>)
\* how often name has been assigned among the first k utterances returned
AssignedBefore(segments, k, name) ==
  Cardinality({i \in 1..k : segments[i].speaker = name})

\* C30: with a roster of several names, an utterance whose label is generic
\* or matches no roster name gets a roster name that is least used among the
\* utterances before it in the same result
C30_LeastUsedSoFar ==
  (norm.pc = "done" /\ Len(norm.participants) > 1 /\ ~norm.useGenericSpeakers) =>
    LET names == RosterNames(norm.participants)
    IN \A i \in 1..Len(norm.segments) :
         GenericOrUnmatched(norm.labels[i], names) =>
           /\ norm.segments[i].speaker \in SeqRange(names)
           /\ \A name \in SeqRange(names) :
                AssignedBefore(norm.segments, i - 1, norm.segments[i].speaker)
                  <= AssignedBefore(norm.segments, i - 1, name)

\* start times in non-decreasing order
PsOrdered(segments) ==
  \A i \in 1..(Len(segments) - 1) : segments[i].startTime <= segments[i + 1].startTime

\* C31: parseTranscriptionResponse returns a non-empty ordered utterance
\* list; for a text that is not JSON, has no segments array or an empty one
\* it is one fallback utterance from 0 to the slice duration, with language
\* 'unknown' and confidence 0
C31_NonEmptyOrFallback ==
  ps.pc = "done" =>
    /\ ps.result.segments # <<>>
    /\ PsOrdered(ps.result.segments)
    /\ (ps.response.kind # "json" \/ ps.response.segments = <<>>) =>
         /\ Len(ps.result.segments) = 1
         /\ ps.result.segments[1].startTime = 0
         /\ ps.result.segments[1].endTime = ps.duration
         /\ ps.result.detectedLanguage = "unknown"
         /\ ps.result.languageConfidence = 0

\* C32: for a response with neither fullText nor wordCount the returned
\* fullText is the utterance texts joined in order and wordCount the number
\* of white-space separated words of that fullText
C32_DerivedWordCount ==
  (ps.pc = "done" /\ ps.response.kind = "json"
     /\ ps.response.fullText = <<>> /\ ps.response.wordCount = 0) =>
    /\ ps.result.fullText = combineSegmentsToText(ps.response.segments)
    /\ ps.result.wordCount = splitWords(ps.result.fullText)

\* C33: the entity index and the sessions agree: an entry of botToSessionMap
\* points to an existing active session whose legacyBotId is the entry's
\* key, and an active session is referenced by exactly one entry
C33_IndexAgreesWithSessions ==
  /\ \A k \in MapKeys :
       botToSessionMap[k] # NoEntry =>
         /\ SessionExists(TSS, botToSessionMap[k])
         /\ transcriptSessions[botToSessionMap[k]].status = "active"
         /\ transcriptSessions[botToSessionMap[k]].legacyBotId = k
  /\ \A sid \in SessionIds :
       (SessionExists(TSS, sid) /\ transcriptSessions[sid].status = "active") =>
         Cardinality({k \in MapKeys : botToSessionMap[k] = sid}) = 1

\* C34: the segment list getTranscript shows for a session id only grows: a
\* step leaves the session there and its list extended, no segment removed,
\* reordered or changed
C34_SegmentsAppendOnly ==
  [][\A sid \in SessionIds :
       getTranscript(TSS, sid) # NoTranscript =>
         /\ transcriptSessions'[sid].status # "absent"
         /\ IsPrefix(getTranscript(TSS, sid).transcript.segments,
                     transcriptSessions'[sid].segments)]_vars

\* C35: once AudioFetchService has handled (and finished handling) the update
\* that listed a bot as removed, and until the bot is listed again,
\* audioBuffers holds no entry for the bot, also when a fetch started for it
\* earlier completes in between
C35_NoBufferAfterRemoval ==
  \A b \in Bots :
    (/\ afsIsRunning
     /\ b \notin DOMAIN activeBots
     /\ \A h \in afsUpdates : b \notin h.removedBots)
      => ~BufHas(audioBuffers, b)

\* C36: at most one registry poll is in flight or scheduled at a time
C36_OnePollingChain == chains(mon) <= 1

\* C37: while the monitor is stopped no poll timer is scheduled and no
\* listener has been handed an update
C37_StopEndsPolling ==
  ~mon.isMonitoring =>
    (liveTimers(mon) = 0 /\ mon.lastNotify # "stopped")

\* C40: while the monitor runs, every poll that has settled (answered,
\* failed, or with a listener that threw) is followed by the start of
\* another poll
C40_PollingNeverStalls == mon.justSettled ~> ~mon.justSettled

\* a failed poll whose listener threw has been followed by the start of the
\* next one
C40_Witness ==
  /\ mon.isMonitoring /\ mon.lastOutcome = "error" /\ mon.listenerThrew
  /\ ~mon.justSettled /\ mon.inflight = 1 /\ liveTimers(mon) = 0

\* C38: stats.activeSessions is the number of sessions whose status is
\* 'active'
C38_ActiveSessionsCount == stats.activeSessions = Cardinality(getActiveSessions(TSS))

\* C39: sseClients holds no subscriber for a session whose status is
\* 'stopped'
C39_NoSubscriberOfStopped ==
  \A sid \in SessionIds :
    transcriptSessions[sid].status = "stopped" => sseClients[sid] = <<>>

====
